---- MODULE Spec2Model ----
(***************************************************************************)
(* A model of the detection -> track -> count pipeline of Traffic_Control: *)
(* ONNXVehicleTracker (core/detectors/traffic_detector.py), the counting   *)
(* step of ONNXTrafficDetector.process_frame, the ambulance Stability Gate  *)
(* and ONNXYOLODetector.non_max_suppression (core/detectors/               *)
(* onnx_detector.py).                                                      *)
(*                                                                         *)
(* Units.  The source computes in floating point; the model keeps every   *)
(* quantity an integer.  A bounding box <<x1, y1, x2, y2>> is in HALF      *)
(* pixels (Half(n) is n pixels), which holds the x.5 coordinates of a box  *)
(* moving 12.5 px a frame.  A centre, (x1 + x2) / 2 in the source, is kept *)
(* in QUARTER pixels, <<x1 + x2, y1 + y2>> of the half-pixel box           *)
(* (Quarter(n) is n pixels).  Confidences are percentages.                 *)
(***************************************************************************)
EXTENDS Integers, Sequences, FiniteSets, TLC

\* ------------------------------------------------------------ bounds
\* Ids a tracker hands out before the model stops feeding it new objects.
MaxTracks == 3
\* Non-empty update calls of a run of SpecTracker.
MaxFed == 3
\* Calls of the gate in a run of SpecStability.
MaxStabilityFrames == 5
\* Frames of a run of SpecZone.
MaxZoneFrames == 6
\* Non-empty update calls of a run of SpecMatch.
MaxMatchCalls == 3
\* Frames of a run of Spec (process_frame calls).
MaxFrames == 7
\* Frames of a run of the end-to-end scenario SpecE2E.
MaxScenarioFrames == 75
\* Boxes handed to one non_max_suppression call.
MaxBoxes == 3
\* Frames of a run of SpecGate (calls of the Stability Gate).
MaxGateFrames == 8
\* Frames of a run of SpecDetect (whole process_frame calls).
MaxAmbulances == 2
MaxNow == 69
TickSeconds == 23
MaxRunnerFrames == 3
\* threads one DetectionStreamingRunner starts, requests one DetectionController receives
MaxThreads == 3
MaxRequests == 4
MaxDetectFrames == 3

\* ------------------------------------------------- program constants
max_disappeared == 30
max_distance == 100
max_trajectory_length == 20
min_movement_to_count == 50
\* smoothing_factor = 0.65, in hundredths
smoothing_factor == 65
\* iou_thres = 0.45, in hundredths
iou_thres == 45
\* the ambulance histories: deque(maxlen = ...)
detection_history_maxlen == 20
confidence_history_maxlen == 20
position_history_maxlen == 15
min_tracklet_frames == 3
\* stability_ratio = 0.6, in hundredths
stability_ratio == 60
\* min_confidence_for_stability = 0.04, low_confidence_boost_threshold = 0.08
\* and temporal_boost_for_low_conf = 0.15, in thousandths
min_confidence_for_stability == 40
low_confidence_boost_threshold == 80
feature_boost_multiplier == 2
temporal_boost_for_low_conf == 150
\* the side of the square model input, in pixels
input_size == 640
\* conf_thres = 0.25 of the vehicle model, in hundredths
conf_thres == 25
ambulance_cooldown == 30
emergency_seconds == 45
ambulance_threshold == 80
VEHICLE_CLASSES == {2, 3, 4, 5, 7}

\* None, for count_line_y: the line is <<>> until the first frame sets it to <<y>>.
None == <<>>

VARIABLES
    \* ONNXVehicleTracker
    next_id, objects, object_keys, disappeared, trajectory_points,
    counted_ids, crossed_ids, zone_entry_positions,
    \* ONNXTrafficDetector
    vehicle_count, lane_enabled, count_line_y, frame_count,
    \* history variables (not program state)
    assigned_ids, since_seen, count_events, last_call, fed,
    \* the script of the end-to-end scenario (its box size)
    scenario_box,
    \* one call of ONNXYOLODetector.non_max_suppression: its arguments, the
    \* outcome of its sort and its result (None before the call)
    nms_boxes, nms_scores, nms_order, nms_keep,
    \* the Stability Gate of ONNXTrafficDetector and what it last returned
    ambulance_detection_history, ambulance_confidence_history,
    ambulance_position_history, ambulance_stable, stable_frames_count,
    gate_output,
    \* history variables of the gate: its calls, and whether every frame so
    \* far was empty or held the one detection Good
    gate_calls, gate_clean,
    \* ONNXTrafficDetector: whether the ambulance model is loaded, and the
    \* ambulance status process_frame keeps
    ambulance_model, ambulance_detected, last_ambulance_detection,
    \* history variables of the last process_frame call: whether it raised to
    \* its caller, whether it caught an exception of the ambulance detector,
    \* whether postprocess caught an error, the boxes postprocess skipped and
    \* the list handed to tracker.update
    raised, swallowed, decode_error, invalid_count, tracker_input,
    \* DetectionStreamingRunner: where the detection thread stands in its
    \* loop, the _broadcast_metrics coroutines scheduled on the event loop and
    \* not yet run, the metrics last broadcast (None before the first)
    runner_pc, pending_metrics, metrics,
    \* history variable: the metrics as they stood at the end of each frame
    snapshots,
    \* IndianTrafficSignal, one per lane of the intersection
    current_state, ambulance_active, ambulance_confidence, ambulance_start_time,
    \* IntersectionController
    is_running, current_phase, phase_elapsed_time, emergency_active,
    emergency_direction, emergency_start_time, phase_elapsed_before_emergency,
    ambulance_count, completed_ambulances,
    \* the wall clock datetime.now() reads, in seconds
    now,
    \* history variables: whether the last step was an activate_ambulance
    \* that succeeded ("waited" once only the wall clock has gone on since),
    \* an update or anything else, and for the last activate_ambulance that
    \* succeeded its lane and the state the lane was in (None before the first);
    \* emergency_began is the value phase_elapsed_time had when the emergency
    \* under way began (None before the first), recorded in SpecResume only
    last_op, activated, emergency_began,
    \* DetectionStreamingRunner: its is_running flag, its detection_thread (0
    \* for None, else the number of the thread last started), where each
    \* thread it ever started stands in _run_detection_loop, and whether a
    \* caller of stop() is waiting in join
    runner_is_running, detection_thread, thread_pc, stop_pc,
    \* DetectionController: its is_running flag; history variables: the
    \* requests handled so far, the last one and the answer it got
    detection_is_running, requests, last_request, last_response

trackerVars == <<next_id, objects, object_keys, disappeared, trajectory_points>>
counterVars == <<counted_ids, crossed_ids, zone_entry_positions>>
detectorVars == <<vehicle_count, lane_enabled, count_line_y, frame_count>>
historyVars == <<assigned_ids, since_seen, count_events, last_call, fed>>
nmsVars == <<nms_boxes, nms_scores, nms_order, nms_keep>>
gateVars == <<ambulance_detection_history, ambulance_confidence_history,
              ambulance_position_history, ambulance_stable,
              stable_frames_count, gate_output, gate_calls, gate_clean>>
ambulanceVars == <<ambulance_model, ambulance_detected, last_ambulance_detection>>
callVars == <<raised, swallowed, decode_error, invalid_count, tracker_input>>
runnerVars == <<runner_pc, pending_metrics, metrics, snapshots>>
laneVars == <<current_state, ambulance_active, ambulance_confidence,
              ambulance_start_time>>
controllerVars == <<is_running, current_phase, phase_elapsed_time,
                    emergency_active, emergency_direction, emergency_start_time,
                    phase_elapsed_before_emergency, ambulance_count,
                    completed_ambulances>>
signalVars == <<laneVars, controllerVars, now, last_op, activated,
               emergency_began>>
threadVars == <<runner_is_running, detection_thread, thread_pc, stop_pc>>
requestVars == <<detection_is_running, requests, last_request, last_response>>
lifecycleVars == <<threadVars, requestVars>>
vars == <<trackerVars, counterVars, detectorVars, historyVars, scenario_box,
          nmsVars, gateVars, ambulanceVars, callVars, runnerVars, signalVars,
          lifecycleVars>>

\* n pixels in the unit of box coordinates and in the unit of centres
Half(n) == 2 * n
Quarter(n) == 4 * n

\* ------------------------------------------------------ ONNXVehicleTracker
\* The tracker's dictionaries as one value.  object_keys is the insertion
\* order of the dict self.objects (the order list(self.objects.keys())
\* yields); assigned lists the ids _register has handed out, oldest first.
Tracker ==
    [next_id |-> next_id, objects |-> objects, object_keys |-> object_keys,
     disappeared |-> disappeared, trajectory_points |-> trajectory_points,
     assigned |-> assigned_ids]

Drop(f, k) == [x \in DOMAIN f \ {k} |-> f[x]]

RECURSIVE Without(_, _)
Without(s, k) ==
    IF s = <<>> THEN <<>>
    ELSE IF Head(s) = k THEN Without(Tail(s), k)
    ELSE <<Head(s)>> \o Without(Tail(s), k)

\* _get_center, in quarter pixels
GetCenter(bbox) == <<bbox[1] + bbox[3], bbox[2] + bbox[4]>>

\* int(old * (1 - 0.65) + new * 0.65) for coordinates >= 0: whole pixels
SmoothCoord(old, new) ==
    Half(((100 - smoothing_factor) * old + smoothing_factor * new) \div Half(100))

SmoothBbox(old_bbox, new_bbox) ==
    [i \in 1..4 |-> SmoothCoord(old_bbox[i], new_bbox[i])]

\* deque(maxlen = max_trajectory_length).append
DequeAppend(q, x) ==
    IF Len(q) >= max_trajectory_length THEN Append(Tail(q), x) ELSE Append(q, x)

UpdateTrajectory(T, object_id, bbox) ==
    LET pts == IF object_id \in DOMAIN T.trajectory_points
               THEN T.trajectory_points[object_id] ELSE <<>>
    IN [T EXCEPT !.trajectory_points =
            (object_id :> DequeAppend(pts, GetCenter(bbox))) @@ @]

\* _register, had the dict put a new key ahead of the older ones
RegisterFront(T, detection) ==
    LET object_id == T.next_id
        T1 == [T EXCEPT
                 !.next_id = @ + 1,
                 !.objects = (object_id :>
                                [bbox |-> detection.bbox,
                                 class |-> detection.class_name,
                                 confidence |-> detection.confidence]) @@ @,
                 !.object_keys = IF object_id \in DOMAIN T.objects
                                 THEN @ ELSE <<object_id>> \o @,
                 !.disappeared = (object_id :> 0) @@ @,
                 !.trajectory_points = (object_id :> <<>>) @@ @,
                 !.assigned = Append(@, object_id)]
    IN UpdateTrajectory(T1, object_id, detection.bbox)

Register(T, detection) ==
    LET object_id == T.next_id
        T1 == [T EXCEPT
                 !.next_id = @ + 1,
                 !.objects = (object_id :>
                                [bbox |-> detection.bbox,
                                 class |-> detection.class_name,
                                 confidence |-> detection.confidence]) @@ @,
                 !.object_keys = IF object_id \in DOMAIN T.objects
                                 THEN @ ELSE Append(@, object_id),
                 !.disappeared = (object_id :> 0) @@ @,
                 !.trajectory_points = (object_id :> <<>>) @@ @,
                 !.assigned = Append(@, object_id)]
    IN UpdateTrajectory(T1, object_id, detection.bbox)

\* _deregister, had it handed the freed id back to next_id
DeregisterRecycle(T, object_id) ==
    [T EXCEPT
       !.next_id = object_id,
       !.objects = Drop(@, object_id),
       !.object_keys = Without(@, object_id),
       !.disappeared = Drop(@, object_id),
       !.trajectory_points = Drop(@, object_id)]

Deregister(T, object_id) ==
    [T EXCEPT
       !.objects = Drop(@, object_id),
       !.object_keys = Without(@, object_id),
       !.disappeared = Drop(@, object_id),
       !.trajectory_points = Drop(@, object_id)]

\* for det in detections: self._register(det)
RECURSIVE RegisterAll(_, _, _, _)
RegisterAll(T, detections, i, matched_detections) ==
    IF i > Len(detections) THEN T
    ELSE IF i \in matched_detections
         THEN RegisterAll(T, detections, i + 1, matched_detections)
         ELSE RegisterAll(Register(T, detections[i]), detections, i + 1,
                          matched_detections)

\* The ageing loop, had it compared with >= max_disappeared
RECURSIVE MarkDisappearedEarly(_, _, _)
MarkDisappearedEarly(T, ids, matched_objects) ==
    IF ids = <<>> THEN T
    ELSE LET obj_id == Head(ids)
             T1 == [T EXCEPT !.disappeared[obj_id] = @ + 1]
             T2 == IF T1.disappeared[obj_id] >= max_disappeared
                   THEN Deregister(T1, obj_id) ELSE T1
         IN IF obj_id \in matched_objects
            THEN MarkDisappearedEarly(T, Tail(ids), matched_objects)
            ELSE MarkDisappearedEarly(T2, Tail(ids), matched_objects)

\* for obj_id in list(keys): if obj_id not in matched_objects:
\*     disappeared[obj_id] += 1; deregister above max_disappeared
RECURSIVE MarkDisappeared(_, _, _)
MarkDisappeared(T, ids, matched_objects) ==
    IF ids = <<>> THEN T
    ELSE LET obj_id == Head(ids)
             T1 == [T EXCEPT !.disappeared[obj_id] = @ + 1]
             T2 == IF T1.disappeared[obj_id] > max_disappeared
                   THEN Deregister(T1, obj_id) ELSE T1
         IN IF obj_id \in matched_objects
            THEN MarkDisappeared(T, Tail(ids), matched_objects)
            ELSE MarkDisappeared(T2, Tail(ids), matched_objects)

\* The square of np.linalg.norm(a - b), in quarter pixels.
Dist2(a, b) == (a[1] - b[1]) * (a[1] - b[1]) + (a[2] - b[2]) * (a[2] - b[2])

\* The inner loop of update, had it not skipped the detections in
\* matched_detections.
RECURSIVE BestMatchAny(_, _, _, _, _, _)
BestMatchAny(obj_center, detection_centers, matched_detections, j, min_dist, best_match) ==
    IF j > Len(detection_centers) THEN best_match
    ELSE LET dist == Dist2(obj_center, detection_centers[j])
             better == /\ (min_dist = -1 \/ dist < min_dist)
                       /\ dist < Quarter(max_distance) * Quarter(max_distance)
         IN IF better
            THEN BestMatchAny(obj_center, detection_centers, matched_detections,
                              j + 1, dist, j)
            ELSE BestMatchAny(obj_center, detection_centers, matched_detections,
                              j + 1, min_dist, best_match)

\* The inner loop of update, had it taken the first unmatched detection
\* closer than max_distance instead of the nearest.
RECURSIVE BestMatchFirst(_, _, _, _, _, _)
BestMatchFirst(obj_center, detection_centers, matched_detections, j, min_dist, best_match) ==
    IF j > Len(detection_centers) THEN best_match
    ELSE LET dist == Dist2(obj_center, detection_centers[j])
             better == /\ j \notin matched_detections
                       /\ min_dist = -1
                       /\ dist < Quarter(max_distance) * Quarter(max_distance)
         IN IF better
            THEN BestMatchFirst(obj_center, detection_centers, matched_detections,
                                j + 1, dist, j)
            ELSE BestMatchFirst(obj_center, detection_centers, matched_detections,
                                j + 1, min_dist, best_match)

\* The inner loop of update: the index of the nearest still unmatched
\* detection closer than max_distance, 0 when there is none (-1 in the
\* source, whose lists start at 0).  min_dist = -1 stands for inf.
RECURSIVE BestMatch(_, _, _, _, _, _)
BestMatch(obj_center, detection_centers, matched_detections, j, min_dist, best_match) ==
    IF j > Len(detection_centers) THEN best_match
    ELSE LET dist == Dist2(obj_center, detection_centers[j])
             better == /\ j \notin matched_detections
                       /\ (min_dist = -1 \/ dist < min_dist)
                       /\ dist < Quarter(max_distance) * Quarter(max_distance)
         IN IF better
            THEN BestMatch(obj_center, detection_centers, matched_detections,
                           j + 1, dist, j)
            ELSE BestMatch(obj_center, detection_centers, matched_detections,
                           j + 1, min_dist, best_match)

\* The outer loop of update over object_ids; M carries the tracker, the two
\* sets matched_detections and matched_objects and, as history, the pairs
\* <<obj_id, best_match>> the loop has made.
RECURSIVE MatchLoop(_, _, _, _, _)
MatchLoop(M, object_ids, object_centers, detections, i) ==
    IF i > Len(object_ids) THEN M
    ELSE LET obj_id == object_ids[i]
             detection_centers == [j \in 1..Len(detections) |->
                                      GetCenter(detections[j].bbox)]
             best_match == BestMatch(object_centers[i], detection_centers,
                                     M.matched_detections, 1, -1, 0)
             det == detections[best_match]
             smoothed_bbox == SmoothBbox(M.T.objects[obj_id].bbox, det.bbox)
             T1 == [M.T EXCEPT
                      !.objects[obj_id] = [bbox |-> smoothed_bbox,
                                           class |-> det.class_name,
                                           confidence |-> det.confidence],
                      !.disappeared[obj_id] = 0]
             T2 == UpdateTrajectory(T1, obj_id, smoothed_bbox)
         IN IF obj_id \in M.matched_objects \/ best_match = 0
            THEN MatchLoop(M, object_ids, object_centers, detections, i + 1)
            ELSE MatchLoop([T |-> T2,
                            matched_detections |-> M.matched_detections \cup {best_match},
                            matched_objects |-> M.matched_objects \cup {obj_id},
                            matches |-> M.matches \cup {<<obj_id, best_match>>}],
                           object_ids, object_centers, detections, i + 1)

\* ONNXVehicleTracker.update.  The result carries the tracker and, as
\* history, the value of matched_objects when the call returns and the pairs
\* of track id and candidate index that were matched.
Update(T, detections) ==
    IF Len(detections) = 0
    THEN [T |-> MarkDisappeared(T, T.object_keys, {}), matched_objects |-> {},
          matches |-> {}]
    ELSE IF T.object_keys = <<>>
    THEN [T |-> RegisterAll(T, detections, 1, {}), matched_objects |-> {},
          matches |-> {}]
    ELSE LET object_ids == T.object_keys
             object_centers == [i \in 1..Len(object_ids) |->
                                   GetCenter(T.objects[object_ids[i]].bbox)]
             M == MatchLoop([T |-> T, matched_detections |-> {}, matched_objects |-> {},
                             matches |-> {}],
                            object_ids, object_centers, detections, 1)
             T1 == RegisterAll(M.T, detections, 1, M.matched_detections)
         IN [T |-> MarkDisappeared(T1, T1.object_keys, M.matched_objects),
             matched_objects |-> M.matched_objects, matches |-> M.matches]

\* ------------------------------------------------------------- counting
\* The tracker's counting state as one value.
Counter ==
    [counted_ids |-> counted_ids, crossed_ids |-> crossed_ids,
     zone_entry_positions |-> zone_entry_positions]

\* check_zone_counting, had it not added the id to counted_ids
CheckZoneCountingForgets(C, traj, object_id) ==
    IF object_id \in C.counted_ids THEN [C |-> C, counted |-> FALSE]
    ELSE IF object_id \notin DOMAIN traj \/ Len(traj[object_id]) < 5
    THEN [C |-> C, counted |-> FALSE]
    ELSE LET points == traj[object_id]
             C1 == IF object_id \in DOMAIN C.zone_entry_positions THEN C
                   ELSE [C EXCEPT !.zone_entry_positions =
                                     (object_id :> points[1][2]) @@ @]
             movement == points[Len(points)][2] - C1.zone_entry_positions[object_id]
         IN [C |-> C1, counted |-> movement >= Quarter(min_movement_to_count)]

\* check_zone_counting, had it compared with > min_movement_to_count
CheckZoneCountingStrict(C, traj, object_id) ==
    IF object_id \in C.counted_ids THEN [C |-> C, counted |-> FALSE]
    ELSE IF object_id \notin DOMAIN traj \/ Len(traj[object_id]) < 5
    THEN [C |-> C, counted |-> FALSE]
    ELSE LET points == traj[object_id]
             C1 == IF object_id \in DOMAIN C.zone_entry_positions THEN C
                   ELSE [C EXCEPT !.zone_entry_positions =
                                     (object_id :> points[1][2]) @@ @]
             movement == points[Len(points)][2] - C1.zone_entry_positions[object_id]
         IN IF movement > Quarter(min_movement_to_count)
            THEN [C |-> [C1 EXCEPT !.counted_ids = @ \cup {object_id}],
                  counted |-> TRUE]
            ELSE [C |-> C1, counted |-> FALSE]

\* check_zone_counting: the new counting state and the returned flag.
CheckZoneCounting(C, traj, object_id) ==
    IF object_id \in C.counted_ids THEN [C |-> C, counted |-> FALSE]
    ELSE IF object_id \notin DOMAIN traj \/ Len(traj[object_id]) < 5
    THEN [C |-> C, counted |-> FALSE]
    ELSE LET points == traj[object_id]
             C1 == IF object_id \in DOMAIN C.zone_entry_positions THEN C
                   ELSE [C EXCEPT !.zone_entry_positions =
                                     (object_id :> points[1][2]) @@ @]
             entry_y == C1.zone_entry_positions[object_id]
             current_y == points[Len(points)][2]
             movement == current_y - entry_y
         IN IF movement >= Quarter(min_movement_to_count)
            THEN [C |-> [C1 EXCEPT !.counted_ids = @ \cup {object_id}],
                  counted |-> TRUE]
            ELSE [C |-> C1, counted |-> FALSE]

\* check_line_crossing, had it looked for a crossing in one direction only
CheckLineCrossingOneWay(C, traj, object_id, line_y) ==
    IF object_id \in C.crossed_ids THEN [C |-> C, counted |-> FALSE]
    ELSE IF object_id \notin DOMAIN traj \/ Len(traj[object_id]) < 2
    THEN [C |-> C, counted |-> FALSE]
    ELSE LET points == traj[object_id]
             y_prev == points[Len(points) - 1][2]
             y_curr == points[Len(points)][2]
         IN IF y_prev <= Quarter(line_y) /\ Quarter(line_y) < y_curr
            THEN [C |-> [C EXCEPT !.crossed_ids = @ \cup {object_id}],
                  counted |-> TRUE]
            ELSE [C |-> C, counted |-> FALSE]

\* check_line_crossing; line_y in pixels.
CheckLineCrossing(C, traj, object_id, line_y) ==
    IF object_id \in C.crossed_ids THEN [C |-> C, counted |-> FALSE]
    ELSE IF object_id \notin DOMAIN traj \/ Len(traj[object_id]) < 2
    THEN [C |-> C, counted |-> FALSE]
    ELSE LET points == traj[object_id]
             y_prev == points[Len(points) - 1][2]
             y_curr == points[Len(points)][2]
         IN IF \/ (y_prev > Quarter(line_y) /\ Quarter(line_y) >= y_curr)
               \/ (y_prev <= Quarter(line_y) /\ Quarter(line_y) < y_curr)
            THEN [C |-> [C EXCEPT !.crossed_ids = @ \cup {object_id}],
                  counted |-> TRUE]
            ELSE [C |-> C, counted |-> FALSE]

\* The counting loop, had it counted into a total that starts at 0 in
\* every frame
RECURSIVE CountLoopPerFrame(_, _, _, _, _)
CountLoopPerFrame(D, ids, traj, zone, line_y) ==
    IF ids = <<>>
    THEN [D EXCEPT !.vehicle_count = Len(D.events) - Len(count_events)]
    ELSE LET obj_id == Head(ids)
             r == IF zone THEN CheckZoneCounting(D.C, traj, obj_id)
                  ELSE CheckLineCrossing(D.C, traj, obj_id, line_y)
             D1 == IF r.counted
                   THEN [C |-> r.C, vehicle_count |-> D.vehicle_count + 1,
                         events |-> Append(D.events, obj_id)]
                   ELSE [D EXCEPT !.C = r.C]
             skip == IF zone THEN obj_id \in D.C.counted_ids
                     ELSE obj_id \in D.C.crossed_ids
         IN IF skip THEN CountLoopPerFrame(D, Tail(ids), traj, zone, line_y)
            ELSE CountLoopPerFrame(D1, Tail(ids), traj, zone, line_y)

\* The counting loop of process_frame over tracked_objects.items().  D carries
\* the counting state, vehicle_count and, as history, the ids counted so far.
\* direction_filter_enabled is False wherever the source sets it, so the
\* is_moving_towards_camera branch never runs.
RECURSIVE CountLoop(_, _, _, _, _)
CountLoop(D, ids, traj, zone, line_y) ==
    IF ids = <<>> THEN D
    ELSE LET obj_id == Head(ids)
             r == IF zone THEN CheckZoneCounting(D.C, traj, obj_id)
                  ELSE CheckLineCrossing(D.C, traj, obj_id, line_y)
             D1 == IF r.counted
                   THEN [C |-> r.C, vehicle_count |-> D.vehicle_count + 1,
                         events |-> Append(D.events, obj_id)]
                   ELSE [D EXCEPT !.C = r.C]
             skip == IF zone THEN obj_id \in D.C.counted_ids
                     ELSE obj_id \in D.C.crossed_ids
         IN IF skip THEN CountLoop(D, Tail(ids), traj, zone, line_y)
            ELSE CountLoop(D1, Tail(ids), traj, zone, line_y)

\* -------------------------------------------------------------- inputs
\* The frames are FrameHeight pixels high.
FrameHeight == 100
FrameWidth == 320
\* The lane of load_lane_config: a rectangle <<x1, y1, x2, y2>> in pixels.
lane_polygon == <<0, 0, 160, FrameHeight>>

\* A detection whose box is given in whole pixels.
Det(bbox, confidence, class_name) ==
    [bbox |-> [i \in 1..4 |-> Half(bbox[i])], confidence |-> confidence,
     class_name |-> class_name]

\* A and C lie 51 px apart, B exactly max_distance below A, F far to the right.
DetA == Det(<<0, 20, 20, 40>>, 90, "vehicle")
DetB == Det(<<0, 120, 20, 140>>, 70, "vehicle")
DetC == Det(<<0, 71, 20, 91>>, 80, "vehicle")
DetF == Det(<<200, 20, 220, 40>>, 50, "ambulance")

\* Candidate lists handed to tracker.update by SpecTracker.
TrackerInputs == {<<DetA>>, <<DetB>>, <<DetF>>, <<DetC, DetF>>}

\* Candidate lists reaching the tracker in a frame of Spec.
FrameInputs == {<<>>, <<DetA>>, <<DetC>>, <<DetF>>, <<DetC, DetA>>}

\* ------------------------------------------------------ history variables
\* since_seen[id]: the update calls since id was created or last matched in
\* which it was in the table and not matched (kept after deregistration).
SinceSeen(old, T0, R) ==
    [id \in DOMAIN old \cup DOMAIN R.T.objects |->
        IF id \notin DOMAIN T0.objects /\ id \in DOMAIN R.T.objects THEN 0
        ELSE IF id \in R.matched_objects THEN 0
        ELSE IF id \in DOMAIN T0.objects THEN old[id] + 1
        ELSE old[id]]

\* ------------------------------------------------ non-maximum suppression
\* Boxes here are <<x1, y1, x2, y2>> in whole pixels, scores are percentages.
Max(a, b) == IF a >= b THEN a ELSE b
Min(a, b) == IF a <= b THEN a ELSE b

\* bbox_iou: the intersection and the union of two boxes
Intersection(box1, box2) ==
    Max(0, Min(box1[3], box2[3]) - Max(box1[1], box2[1]))
    * Max(0, Min(box1[4], box2[4]) - Max(box1[2], box2[2]))

Area(box) == (box[3] - box[1]) * (box[4] - box[2])

Union(box1, box2) == Area(box1) + Area(box2) - Intersection(box1, box2)

\* intersection / (union + 1e-6) > iou_threshold, the threshold in
\* hundredths.  The areas are integers, so the epsilon decides nothing but the
\* tie intersection / union = threshold, which it puts at or below it.
IouAbove(box1, box2, iou_threshold) ==
    100 * Intersection(box1, box2) > iou_threshold * Union(box1, box2)

IndexPermutations(n) ==
    {p \in [1..n -> 1..n] : \A i, j \in 1..n : p[i] = p[j] => i = j}

\* np.argsort(scores)[::-1]: the indices by descending score.  The sort is
\* numpy's default, which is not stable: equal scores come in any order.
Argsort(scores) ==
    {order \in IndexPermutations(Len(scores)) :
        \A i, j \in 1..Len(scores) :
            i < j => scores[order[i]] >= scores[order[j]]}

\* The suppression loop run without its mask: every box is kept.
RECURSIVE SuppressLoopKeepAll(_, _, _, _)
SuppressLoopKeepAll(boxes, order, keep, iou_threshold) ==
    IF order = <<>> THEN keep
    ELSE SuppressLoopKeepAll(boxes, Tail(order), Append(keep, order[1]),
                             iou_threshold)

\* The while loop of non_max_suppression: keep the first box of order, drop
\* from the rest those whose IoU with it is above the threshold.
RECURSIVE SuppressLoop(_, _, _, _)
SuppressLoop(boxes, order, keep, iou_threshold) ==
    IF order = <<>> THEN keep
    ELSE LET Mask(k) == ~IouAbove(boxes[order[1]], boxes[k], iou_threshold)
         IN IF Len(order) = 1 THEN Append(keep, order[1])
            ELSE SuppressLoop(boxes, SelectSeq(Tail(order), Mask),
                              Append(keep, order[1]), iou_threshold)

\* non_max_suppression for one outcome of the sort
NonMaxSuppression(boxes, order, iou_threshold) ==
    SuppressLoop(boxes, order, <<>>, iou_threshold)

\* A and B overlap at IoU 2/3, B and C at 7/13, A and C at 1/3; D and E touch
\* no other box.
NmsBoxes ==
    {<<0, 0, 10, 10>>, <<2, 0, 12, 10>>, <<5, 0, 15, 10>>, <<20, 0, 30, 10>>,
     <<0, 20, 10, 30>>}
NmsScores == {50, 70, 90}

SeqsUpTo(S, n) == UNION {[1..k -> S] : k \in 0..n}

NmsInit ==
    /\ nms_boxes = <<>>
    /\ nms_scores = <<>>
    /\ nms_order = <<>>
    /\ nms_keep = None

\* postprocess hands the boxes above the confidence threshold to
\* non_max_suppression with self.iou_thres.
Suppress ==
    /\ nms_keep = None
    /\ \E order \in Argsort(nms_scores) :
          /\ nms_order' = order
          /\ nms_keep' = <<NonMaxSuppression(nms_boxes, order, iou_thres)>>
    /\ UNCHANGED <<nms_boxes, nms_scores, trackerVars, counterVars,
                   detectorVars, historyVars, scenario_box, gateVars,
                   ambulanceVars, callVars, runnerVars, signalVars,
                   lifecycleVars>>

\* ------------------------------------------------------- Stability Gate
\* Units of the gate.  A confidence is in thousandths (Milli), a temporal
\* score in millionths; a final confidence, their product, and the
\* acceptance thresholds are in 10^-9.  A box is in whole pixels and a
\* position is the doubled centre <<x1 + x2, y1 + y2>>.
Milli == 1000
Nano == 1000000000

\* deque(maxlen = maxlen).append
DequeAppendMax(q, x, maxlen) ==
    IF Len(q) >= maxlen THEN Append(Tail(q), x) ELSE Append(q, x)

\* list(history)[-n:]
LastN(s, n) == SubSeq(s, Max(1, Len(s) - n + 1), Len(s))

\* sum(recent_detections) of a list of booleans
CountTrue(s) == Cardinality({i \in DOMAIN s : s[i]})

RECURSIVE SumSeq(_)
SumSeq(s) == IF s = <<>> THEN 0 ELSE Head(s) + SumSeq(Tail(s))

RECURSIVE SumSquares(_)
SumSquares(s) == IF s = <<>> THEN 0 ELSE Head(s) * Head(s) + SumSquares(Tail(s))

\* Len(s)^2 * np.var(s); np.std(s) > d iff VarNum(s) > d^2 * Len(s)^2
VarNum(s) == Len(s) * SumSquares(s) - SumSeq(s) * SumSeq(s)

\* _calculate_position_variance(positions) < v and > v, v in square pixels;
\* the positions are doubled, which makes their variance four times as large.
PositionVarNum(positions) ==
    VarNum([i \in DOMAIN positions |-> positions[i][1]])
    + VarNum([i \in DOMAIN positions |-> positions[i][2]])

PositionVarianceBelow(positions, v) ==
    IF Len(positions) < 2 THEN 0 < v
    ELSE PositionVarNum(positions) < 4 * v * Len(positions) * Len(positions)

PositionVarianceAbove(positions, v) ==
    IF Len(positions) < 2 THEN 0 > v
    ELSE PositionVarNum(positions) > 4 * v * Len(positions) * Len(positions)

\* np.std(confidences) < d and > d, d in thousandths
StdBelow(confidences, d) ==
    VarNum(confidences) < d * d * Len(confidences) * Len(confidences)

StdAbove(confidences, d) ==
    VarNum(confidences) > d * d * Len(confidences) * Len(confidences)

\* x * (pct / 100)
Scale(x, pct) == (x * pct) \div 100

\* ambulance_roi is None (the call that would set it is commented out at
\* process_frame), so every box is inside.
IsInAmbulanceRoi(bbox) == TRUE

\* _calculate_temporal_consistency_score, in millionths, with the histories
\* as they are once the detection's own samples are appended
CalculateTemporalConsistencyScore(G, bbox, confidence) ==
    LET current_center == <<bbox[1] + bbox[3], bbox[2] + bbox[4]>>
        positions == Append(LastN(G.position_history, 3), current_center)
        recent_confidences == LastN(G.confidence_history, 5)
        detected == CountTrue(LastN(G.detection_history, 10))
        position_factor ==
            IF Len(G.position_history) < 3 THEN 100
            ELSE IF PositionVarianceBelow(positions, 1000) THEN 120
            ELSE IF PositionVarianceBelow(positions, 5000) THEN 110
            ELSE IF PositionVarianceAbove(positions, 20000) THEN 70
            ELSE 100
        confidence_factor ==
            IF Len(G.confidence_history) < 5 THEN 100
            ELSE IF StdBelow(recent_confidences, 50) THEN 115
            ELSE IF StdBelow(recent_confidences, 100) THEN 105
            ELSE IF StdAbove(recent_confidences, 300) THEN 80
            ELSE 100
        frequency_factor ==
            IF Len(G.detection_history) < 10 THEN 100
            ELSE IF detected >= 8 THEN 120
            ELSE IF detected >= 6 THEN 110
            ELSE IF detected < 3 THEN 80
            ELSE 100
    IN Min(Scale(Scale(Scale(1000000, position_factor), confidence_factor),
                 frequency_factor),
           1500000)

\* The body of the loop of _apply_enhanced_temporal_analysis for one
\* detection: boost, append to the histories, score.
Enhance(G, det) ==
    LET confidence == det.confidence
        feature_boost == det.total_boost
        temporal_boost ==
            IF /\ Len(G.detection_history) >= 3
               /\ CountTrue(LastN(G.detection_history, 3)) >= 2
            THEN temporal_boost_for_low_conf ELSE 0
        boosted_confidence ==
            IF confidence < low_confidence_boost_threshold
            THEN Min(confidence + feature_boost * feature_boost_multiplier
                     + temporal_boost, Milli)
            ELSE Min(confidence + feature_boost, Milli)
        G1 == [G EXCEPT
                 !.confidence_history =
                     DequeAppendMax(@, boosted_confidence, confidence_history_maxlen),
                 !.position_history =
                     DequeAppendMax(@, <<det.bbox[1] + det.bbox[3],
                                         det.bbox[2] + det.bbox[4]>>,
                                    position_history_maxlen)]
        temporal_score ==
            CalculateTemporalConsistencyScore(G1, det.bbox, boosted_confidence)
        final_confidence == Min(boosted_confidence * temporal_score, Nano)
    IN [G1 EXCEPT !.enhanced =
            Append(@, [bbox |-> det.bbox, confidence |-> final_confidence,
                       original_confidence |-> confidence,
                       total_boost |-> feature_boost,
                       validation |-> det.validation])]

RECURSIVE EnhanceLoop(_, _, _)
EnhanceLoop(G, detections, i) ==
    IF i > Len(detections) THEN G
    ELSE IF ~IsInAmbulanceRoi(detections[i].bbox)
         THEN EnhanceLoop(G, detections, i + 1)
         ELSE EnhanceLoop(Enhance(G, detections[i]), detections, i + 1)

\* max(det['confidence'] for det in current_detections)
MaxConfidence(detections) ==
    CHOOSE c \in {detections[i].confidence : i \in DOMAIN detections} :
        \A i \in DOMAIN detections : detections[i].confidence <= c

\* The stability check without its guard on the fill of the history.
IsEnhancedStableDetectionNoFill(G, current_detections) ==
    LET recent_detections == LastN(G.detection_history, min_tracklet_frames)
        recent_confidences ==
            SelectSeq(LastN(G.confidence_history, min_tracklet_frames),
                      LAMBDA c : c > 0)
    IN /\ 100 * CountTrue(recent_detections)
             >= stability_ratio * Len(recent_detections)
       /\ (Len(G.confidence_history) >= min_tracklet_frames
             /\ recent_confidences # <<>>)
          => /\ SumSeq(recent_confidences)
                   >= min_confidence_for_stability * Len(recent_confidences)
             /\ ~StdAbove(recent_confidences, 250)
       /\ Len(G.position_history) >= 5
          => ~PositionVarianceAbove(LastN(G.position_history, 5), 50000)
       /\ current_detections # <<>>
          => MaxConfidence(current_detections) >= Nano \div 10

\* _is_enhanced_stable_detection
IsEnhancedStableDetection(G, current_detections) ==
    LET recent_detections == LastN(G.detection_history, min_tracklet_frames)
        recent_confidences ==
            SelectSeq(LastN(G.confidence_history, min_tracklet_frames),
                      LAMBDA c : c > 0)
    IN /\ Len(G.detection_history) >= min_tracklet_frames
       \* criterion 1: detection_rate >= stability_ratio
       /\ 100 * CountTrue(recent_detections)
             >= stability_ratio * Len(recent_detections)
       \* criterion 2: confidence consistency
       /\ (Len(G.confidence_history) >= min_tracklet_frames
             /\ recent_confidences # <<>>)
          => /\ SumSeq(recent_confidences)
                   >= min_confidence_for_stability * Len(recent_confidences)
             /\ ~StdAbove(recent_confidences, 250)
       \* criterion 3: position stability
       /\ Len(G.position_history) >= 5
          => ~PositionVarianceAbove(LastN(G.position_history, 5), 50000)
       \* criterion 4: current detection quality
       /\ current_detections # <<>>
          => MaxConfidence(current_detections) >= Nano \div 10

\* _get_adaptive_confidence_threshold, in 10^-9 (adaptive_confidence_enabled
\* is True)
GetAdaptiveConfidenceThreshold(G, detection) ==
    LET base_threshold == 80000000
        by_features ==
            IF detection.total_boost > 200 THEN (base_threshold * 4) \div 10
            ELSE IF detection.total_boost > 100 THEN (base_threshold * 6) \div 10
            ELSE IF detection.total_boost > 50 THEN (base_threshold * 8) \div 10
            ELSE base_threshold
        by_size ==
            IF detection.validation = None THEN by_features
            ELSE IF detection.validation[1] > 20 THEN (by_features * 7) \div 10
            ELSE IF detection.validation[1] > 10 THEN (by_features * 17) \div 20
            ELSE by_features
        detected == CountTrue(LastN(G.detection_history, 5))
        by_history ==
            IF Len(G.detection_history) < 5 THEN by_size
            ELSE IF detected >= 4 THEN (by_size * 5) \div 10
            ELSE IF detected >= 3 THEN (by_size * 7) \div 10
            ELSE by_size
    IN Max(30000000, Min(by_history, 150000000))

\* stable_threshold = adaptive_threshold * 0.8
StableThreshold(G, det) == (GetAdaptiveConfidenceThreshold(G, det) * 8) \div 10

\* the unstable threshold, had its cap been 0.05 instead of 0.25
UnstableThresholdLowCap(G, det) ==
    Min((GetAdaptiveConfidenceThreshold(G, det) * 3) \div 2, Nano \div 20)

\* unstable_threshold = min(adaptive_threshold * 1.5, 0.25)
UnstableThreshold(G, det) ==
    Min((GetAdaptiveConfidenceThreshold(G, det) * 3) \div 2, Nano \div 4)

\* _filter_by_stability_and_confidence
FilterByStabilityAndConfidence(G, detections, stable) ==
    LET Threshold(det) ==
            IF stable THEN StableThreshold(G, det) ELSE UnstableThreshold(G, det)
        Accepted(det) == det.confidence >= Threshold(det)
    IN SelectSeq(detections, Accepted)

\* Detections as the filter sees them, with final confidence c: between them
\* they take every branch of _get_adaptive_confidence_threshold on the
\* feature score and on the relative area.
ThresholdDets(c) ==
    {[bbox |-> <<100, 100, 140, 140>>, confidence |-> c,
      original_confidence |-> 50, total_boost |-> p[1], validation |-> p[2]] :
        p \in {<<0, None>>, <<60, <<5>>>>, <<150, <<15>>>>, <<250, <<30>>>>}}

\* The detections the ambulance filters hand to the gate: total_boost is
\* what _detect_ambulance_features finds in the frame, validation the
\* relative area (in thousandths) _filter_ambulance_detections may attach.
GateDet(bbox, confidence, total_boost, validation) ==
    [bbox |-> bbox, confidence |-> confidence, total_boost |-> total_boost,
     validation |-> validation]

Good == GateDet(<<100, 100, 140, 140>>, 300, 0, None)
Weak == GateDet(<<100, 100, 140, 140>>, 50, 0, <<15>>)
Far == GateDet(<<700, 100, 740, 140>>, 900, 150, <<30>>)

GateInputs == {<<>>, <<Good>>, <<Weak>>, <<Good, Far>>}

Gate ==
    [detection_history |-> ambulance_detection_history,
     confidence_history |-> ambulance_confidence_history,
     position_history |-> ambulance_position_history,
     enhanced |-> <<>>]

GateInit ==
    /\ ambulance_detection_history = <<>>
    /\ ambulance_confidence_history = <<>>
    /\ ambulance_position_history = <<>>
    /\ ambulance_stable = FALSE
    /\ stable_frames_count = 0
    /\ gate_output = <<>>
    /\ gate_calls = 0
    /\ gate_clean = TRUE

\* What _apply_enhanced_temporal_analysis(detections, frame) computes: the
\* histories, the stability and the list it returns.
GateResult(detections) ==
    LET G == EnhanceLoop(
                [Gate EXCEPT !.detection_history =
                    DequeAppendMax(@, detections # <<>>, detection_history_maxlen)],
                detections, 1)
        stable == IsEnhancedStableDetection(G, G.enhanced)
    IN [G |-> G, stable |-> stable,
        output |-> FilterByStabilityAndConfidence(G, G.enhanced, stable)]

SetGate(R, detections) ==
    /\ ambulance_detection_history' = R.G.detection_history
    /\ ambulance_confidence_history' = R.G.confidence_history
    /\ ambulance_position_history' = R.G.position_history
    /\ ambulance_stable' = R.stable
    /\ stable_frames_count' =
          IF R.stable THEN stable_frames_count + 1
          ELSE IF detections = <<>> THEN 0 ELSE stable_frames_count
    /\ gate_output' = R.output
    /\ gate_calls' = gate_calls + 1
    /\ gate_clean' = (gate_clean /\ detections \in {<<>>, <<Good>>})

\* _apply_enhanced_temporal_analysis(detections, frame), called on its own
ApplyEnhancedTemporalAnalysis(detections) ==
    \E R \in {GateResult(detections)} :
       /\ SetGate(R, detections)
       /\ UNCHANGED <<trackerVars, counterVars, detectorVars, historyVars,
                      scenario_box, nmsVars, ambulanceVars, callVars, runnerVars, signalVars,
                   lifecycleVars>>

GateFrame ==
    /\ gate_calls < MaxGateFrames
    /\ \E detections \in GateInputs : ApplyEnhancedTemporalAnalysis(detections)

\* ---------------------------------------------------------------- decoder
\* The raw output of the vehicle model, already transposed to one row an
\* anchor: cols columns, <<x_center, y_center, width, height>> in pixels of
\* the model input followed by one score (a percentage) per class.
Tensor(cols, rows) == [cols |-> cols, rows |-> rows]

\* preprocess: the letterbox of an image of FrameWidth x FrameHeight pixels.
\* ratio = min(input_width / img_width, input_height / img_height) is kept as
\* the fraction input_size / ratio_den.
Preprocess(img_height, img_width) ==
    LET ratio_den == Max(img_width, img_height)
        new_width == (img_width * input_size) \div ratio_den
        new_height == (img_height * input_size) \div ratio_den
    IN [ratio_den |-> ratio_den,
        dx |-> (input_size - new_width) \div 2,
        dy |-> (input_size - new_height) \div 2]

\* np.max and np.argmax of the class scores of a row
MaxScore(row) ==
    LET class_scores == SubSeq(row, 5, Len(row))
    IN CHOOSE s \in {class_scores[i] : i \in DOMAIN class_scores} :
          \A i \in DOMAIN class_scores : class_scores[i] <= s

ArgMaxScore(row) ==
    LET class_scores == SubSeq(row, 5, Len(row))
    IN (CHOOSE i \in DOMAIN class_scores :
           /\ class_scores[i] = MaxScore(row)
           /\ \A j \in 1..(i - 1) : class_scores[j] < MaxScore(row)) - 1

\* centre form to corner form, in half pixels of the model input
Corners(row) ==
    <<2 * row[1] - row[3], 2 * row[2] - row[4],
      2 * row[1] + row[3], 2 * row[2] + row[4]>>

\* np.clip(v, 0, hi)
Clip(v, hi) == Max(0, Min(v, hi))

\* A box of the model input in the original image: remove the padding, divide
\* by the ratio, clip to the image.
Remap(box, P, img_height, img_width) ==
    LET X(v) == Clip(((v - Half(P.dx)) * P.ratio_den) \div input_size, Half(img_width))
        Y(v) == Clip(((v - Half(P.dy)) * P.ratio_den) \div input_size, Half(img_height))
    IN <<X(box[1]), Y(box[2]), X(box[3]), Y(box[4])>>

\* The final loop of postprocess with its test left out: every box becomes
\* a detection.
RECURSIVE ToDetectionsKeepInvalid(_, _, _, _, _)
ToDetectionsKeepInvalid(boxes, scores, class_ids, i, out) ==
    IF i > Len(boxes) THEN out
    ELSE ToDetectionsKeepInvalid(boxes, scores, class_ids, i + 1,
            [out EXCEPT !.detections =
                Append(@, [bbox |-> boxes[i], confidence |-> scores[i],
                           class_id |-> class_ids[i],
                           class_name |-> ToString(class_ids[i])])])

\* The final loop of postprocess: boxes with x2 <= x1 or y2 <= y1 are
\* skipped and counted, the others become detections.
RECURSIVE ToDetections(_, _, _, _, _)
ToDetections(boxes, scores, class_ids, i, out) ==
    IF i > Len(boxes) THEN out
    ELSE IF boxes[i][3] <= boxes[i][1] \/ boxes[i][4] <= boxes[i][2]
    THEN ToDetections(boxes, scores, class_ids, i + 1,
                      [out EXCEPT !.invalid_count = @ + 1])
    ELSE ToDetections(boxes, scores, class_ids, i + 1,
            [out EXCEPT !.detections =
                Append(@, [bbox |-> boxes[i], confidence |-> scores[i],
                           class_id |-> class_ids[i],
                           class_name |-> ToString(class_ids[i])])])

\* postprocess for one outcome of the sort of the suppression: the rows at
\* or above conf_thres, suppressed, remapped, and made detections
Decode(rows, order, img_height, img_width) ==
    LET P == Preprocess(img_height, img_width)
        boxes == [i \in DOMAIN rows |-> Corners(rows[i])]
        keep_indices == NonMaxSuppression(boxes, order, iou_thres)
        kept == [k \in DOMAIN keep_indices |-> rows[keep_indices[k]]]
    IN ToDetections([k \in DOMAIN kept |->
                        Remap(Corners(kept[k]), P, img_height, img_width)],
                    [k \in DOMAIN kept |-> MaxScore(kept[k])],
                    [k \in DOMAIN kept |-> ArgMaxScore(kept[k])],
                    1,
                    [detections |-> <<>>, invalid_count |-> 0, error |-> FALSE])

\* postprocess: what it can return.  A tensor without class columns makes
\* np.max raise inside the try block, whose handler prints the error and
\* returns the empty list.
Postprocess(outputs, img_height, img_width) ==
    IF outputs.cols < 5
    THEN {[detections |-> <<>>, invalid_count |-> 0, error |-> TRUE]}
    ELSE LET Valid(row) == MaxScore(row) >= conf_thres
             valid == SelectSeq(outputs.rows, Valid)
         IN {Decode(valid, order, img_height, img_width) :
                order \in Argsort([i \in DOMAIN valid |-> MaxScore(valid[i])])}

\* cv2.pointPolygonTest(lane_polygon, center, False) >= 0 for the lane, a
\* rectangle <<x1, y1, x2, y2>> in pixels
InLane(bbox) ==
    /\ Quarter(lane_polygon[1]) <= bbox[1] + bbox[3]
    /\ bbox[1] + bbox[3] <= Quarter(lane_polygon[3])
    /\ Quarter(lane_polygon[2]) <= bbox[2] + bbox[4]
    /\ bbox[2] + bbox[4] <= Quarter(lane_polygon[4])

\* _filter_vehicle_detections
FilterVehicleDetections(detections) ==
    LET Keep(det) ==
            /\ det.class_id # 0
            /\ det.class_id \in VEHICLE_CLASSES
            /\ lane_enabled => InLane(det.bbox)
        kept == SelectSeq(detections, Keep)
    IN [i \in DOMAIN kept |->
          [bbox |-> kept[i].bbox, confidence |-> kept[i].confidence,
           class_id |-> kept[i].class_id, class_name |-> "vehicle",
           original_class_id |-> kept[i].class_id]]

\* Rows of the model output for a frame of FrameWidth x FrameHeight pixels
\* (ratio 2, 220 rows of padding above and below the image).
RowA == <<20, 280, 40, 40, 5, 0, 90, 10>>
\* overlaps RowA, scores lower
RowA2 == <<22, 280, 40, 40, 0, 0, 60, 0>>
RowC == <<20, 382, 40, 40, 0, 0, 10, 80>>
\* wholly in the padding above the image
RowPad == <<20, 100, 40, 40, 0, 0, 70, 0>>
\* across the upper edge of the image
RowEdge == <<500, 230, 40, 40, 0, 0, 70, 0>>
\* beyond the right edge of the model input
RowRight == <<650, 280, 10, 40, 0, 0, 70, 0>>
\* a person, an unknown class, a score below conf_thres
RowPerson == <<200, 300, 40, 40, 90, 0, 0, 0>>
RowOther == <<400, 300, 40, 40, 0, 85, 0, 0>>
RowLow == <<20, 280, 40, 40, 0, 0, 20, 0>>

Tensors ==
    {Tensor(8, <<>>), Tensor(8, <<RowA>>), Tensor(8, <<RowC, RowPad>>),
     Tensor(8, <<RowA2, RowA>>), Tensor(8, <<RowEdge, RowPerson>>),
     Tensor(8, <<RowLow, RowRight, RowOther>>), Tensor(8, <<RowC, RowA>>),
     Tensor(4, <<<<20, 280, 40, 40>>>>)}

\* What self.vehicle_model.detect does in a frame: session.run raises, or it
\* gives the tensor postprocess decodes.
VehicleOutcomes ==
    {[raises |-> TRUE, outputs |-> Tensor(8, <<>>)]}
    \cup {[raises |-> FALSE, outputs |-> t] : t \in Tensors}

\* What the ambulance side does in a frame: self.ambulance_model.detect
\* raises at every confidence level, or the detections of the ambulance
\* model and the fallback that pass the filters before the gate.
Amb == GateDet(<<200, 20, 220, 40>>, 300, 0, None)

AmbulanceOutcomes ==
    {[raises |-> TRUE, detections |-> <<>>],
     [raises |-> FALSE, detections |-> <<>>],
     [raises |-> FALSE, detections |-> <<Amb>>]}

\* -------------------------------------------------------------- actions
TrackerInit ==
    /\ next_id = 0
    /\ objects = <<>>
    /\ object_keys = <<>>
    /\ disappeared = <<>>
    /\ trajectory_points = <<>>
    /\ counted_ids = {}
    /\ crossed_ids = {}
    /\ zone_entry_positions = <<>>
    /\ assigned_ids = <<>>
    /\ since_seen = <<>>
    /\ count_events = <<>>
    /\ last_call = "none"
    /\ fed = 0

SetTracker(R) ==
    /\ next_id' = R.T.next_id
    /\ objects' = R.T.objects
    /\ object_keys' = R.T.object_keys
    /\ disappeared' = R.T.disappeared
    /\ trajectory_points' = R.T.trajectory_points
    /\ assigned_ids' = R.T.assigned
    /\ since_seen' = SinceSeen(since_seen, Tracker, R)

\* tracker.update(detections), called directly
TrackerUpdate(detections) ==
    \E R \in {Update(Tracker, detections)} :
       /\ R.T.next_id <= MaxTracks
       /\ SetTracker(R)
       /\ last_call' = IF detections = <<>> THEN "empty" ELSE "detections"
       /\ fed' = IF detections = <<>> THEN fed ELSE fed + 1
       /\ UNCHANGED <<counterVars, detectorVars, count_events, scenario_box,
                      nmsVars, gateVars, ambulanceVars, callVars, runnerVars, signalVars,
                   lifecycleVars>>

UpdateEmpty == TrackerUpdate(<<>>)

UpdateDetections ==
    /\ fed < MaxFed
    /\ \E detections \in TrackerInputs : TrackerUpdate(detections)

\* ONNXTrafficDetector.process_frame from the tracker update on, for a frame
\* whose detectors and filters hand all_detections to the tracker.
\* The count line process_frame uses: int(frame.shape[0] * 0.66), set by the
\* first frame.
CountLine ==
    IF count_line_y = None THEN (FrameHeight * 66) \div 100 ELSE count_line_y[1]

\* process_frame from tracker.update(all_detections) to its return
TrackAndCount(all_detections, line_y) ==
    \E R \in {Update(Tracker, all_detections)} :
    \E D \in {CountLoop([C |-> Counter, vehicle_count |-> vehicle_count,
                         events |-> count_events],
                        R.T.object_keys, R.T.trajectory_points, lane_enabled,
                        line_y)} :
       /\ R.T.next_id <= MaxTracks
       /\ SetTracker(R)
       /\ counted_ids' = D.C.counted_ids
       /\ crossed_ids' = D.C.crossed_ids
       /\ zone_entry_positions' = D.C.zone_entry_positions
       /\ vehicle_count' = D.vehicle_count
       /\ count_events' = D.events
       /\ frame_count' = frame_count + 1
       /\ last_call' = IF all_detections = <<>> THEN "empty" ELSE "detections"

ProcessFrame(all_detections) ==
    \E line_y \in {CountLine} :
       /\ count_line_y' = <<line_y>>
       /\ TrackAndCount(all_detections, line_y)
       /\ UNCHANGED <<lane_enabled, fed, scenario_box, nmsVars, gateVars,
                      ambulanceVars, callVars, runnerVars, signalVars,
                   lifecycleVars>>

Frame ==
    /\ frame_count < MaxFrames
    /\ \E all_detections \in FrameInputs : ProcessFrame(all_detections)

\* ------------------------------------------------ IntersectionController
\* Times the controller adds up (delta_time, phase timers) are in tenths of a
\* second, wall-clock times in seconds, confidences in percent.
\* IndianTrafficSignal.elapsed_time, which only get_status reports, is left out.
Lanes == {"north", "south", "east", "west"}

\* IntersectionController.phase_timings
phase_timings == <<350, 50, 350, 50, 350, 50, 350, 50, 20>>

\* phase_directions, had PHASE_7 and PHASE_8 named west a second time
PhaseDirectionsWestTwice ==
    <<[state |-> "GREEN", direction |-> "south"],
      [state |-> "YELLOW", direction |-> "south"],
      [state |-> "GREEN", direction |-> "west"],
      [state |-> "YELLOW", direction |-> "west"],
      [state |-> "GREEN", direction |-> "north"],
      [state |-> "YELLOW", direction |-> "north"],
      [state |-> "GREEN", direction |-> "west"],
      [state |-> "YELLOW", direction |-> "west"],
      [state |-> "ALL_RED", direction |-> "all"]>>

\* IntersectionController.phase_directions
phase_directions ==
    <<[state |-> "GREEN", direction |-> "south"],
      [state |-> "YELLOW", direction |-> "south"],
      [state |-> "GREEN", direction |-> "west"],
      [state |-> "YELLOW", direction |-> "west"],
      [state |-> "GREEN", direction |-> "north"],
      [state |-> "YELLOW", direction |-> "north"],
      [state |-> "GREEN", direction |-> "east"],
      [state |-> "YELLOW", direction |-> "east"],
      [state |-> "ALL_RED", direction |-> "all"]>>

\* arguments of the calls: lane ids (one of them unknown to the controller),
\* confidences and the delta_time value (5 s)
Directions == Lanes \cup {"centre"}
Confidences == {79, 80}
DeltaTimes == {50}

\* IntersectionController.__init__ and four add_lane calls
SignalInit ==
    /\ current_state = [l \in Lanes |-> "RED"]
    /\ ambulance_active = [l \in Lanes |-> FALSE]
    /\ ambulance_confidence = [l \in Lanes |-> 0]
    /\ ambulance_start_time = [l \in Lanes |-> None]
    /\ is_running = FALSE
    /\ current_phase = 1
    /\ phase_elapsed_time = 0
    /\ emergency_active = FALSE
    /\ emergency_direction = None
    /\ emergency_start_time = None
    /\ phase_elapsed_before_emergency = 0
    /\ ambulance_count = 0
    /\ completed_ambulances = 0
    /\ now = 0
    /\ last_op = "other"
    /\ activated = None
    /\ emergency_began = None

GetPerpendicularLane(lane_id) ==
    CASE lane_id = "north" -> "south"
      [] lane_id = "south" -> "north"
      [] lane_id = "east" -> "west"
      [] lane_id = "west" -> "east"
      [] OTHER -> "south"

\* _update_phase_states, had it treated an ambulance lane like any other
UpdatePhaseStatesNoEmergency(active, em_active, em_direction, phase) ==
    [lane_id \in Lanes |->
       IF em_active /\ em_direction # None
       THEN IF lane_id = GetPerpendicularLane(em_direction[1])
            THEN "GREEN" ELSE "RED"
       ELSE IF phase_directions[phase].direction = "all" THEN "ALL_RED"
       ELSE IF lane_id = phase_directions[phase].direction
       THEN phase_directions[phase].state
       ELSE "RED"]

\* _update_phase_states: the state every lane is set to
UpdatePhaseStates(active, em_active, em_direction, phase) ==
    [lane_id \in Lanes |->
       IF active[lane_id] THEN "EMERGENCY"
       ELSE IF em_active /\ em_direction # None
       THEN IF lane_id = GetPerpendicularLane(em_direction[1])
            THEN "GREEN" ELSE "RED"
       ELSE IF phase_directions[phase].direction = "all" THEN "ALL_RED"
       ELSE IF lane_id = phase_directions[phase].direction
       THEN phase_directions[phase].state
       ELSE "RED"]

\* IndianTrafficSignal.update for every lane: whether the lane's ambulance is
\* still active after it
LaneUpdate ==
    [lane_id \in Lanes |->
       /\ ambulance_active[lane_id]
       /\ ~(/\ ambulance_start_time[lane_id] # None
            /\ now - ambulance_start_time[lane_id][1] > emergency_seconds)]

SignalUnchanged ==
    UNCHANGED <<trackerVars, counterVars, detectorVars, historyVars,
                scenario_box, nmsVars, gateVars, ambulanceVars, callVars,
                runnerVars, lifecycleVars>>

\* IntersectionController.start()
Start ==
    /\ is_running' = TRUE
    /\ current_phase' = 1
    /\ phase_elapsed_time' = 0
    /\ current_state' = UpdatePhaseStates(ambulance_active, emergency_active,
                                          emergency_direction, 1)
    /\ last_op' = "other"
    /\ UNCHANGED <<ambulance_active, ambulance_confidence, ambulance_start_time,
                   emergency_active, emergency_direction, emergency_start_time,
                   phase_elapsed_before_emergency, ambulance_count,
                   completed_ambulances, now, activated, emergency_began>>
    /\ SignalUnchanged

\* IntersectionController.stop()
Stop ==
    /\ is_running' = FALSE
    /\ last_op' = "other"
    /\ UNCHANGED <<laneVars, current_phase, phase_elapsed_time,
                   emergency_active, emergency_direction, emergency_start_time,
                   phase_elapsed_before_emergency, ambulance_count,
                   completed_ambulances, now, activated, emergency_began>>
    /\ SignalUnchanged

\* IntersectionController.reset()
Reset ==
    /\ current_phase' = 1
    /\ phase_elapsed_time' = 0
    /\ phase_elapsed_before_emergency' = 0
    /\ emergency_active' = FALSE
    /\ emergency_direction' = None
    /\ emergency_start_time' = None
    /\ ambulance_active' = [l \in Lanes |-> FALSE]
    /\ last_op' = "other"
    /\ UNCHANGED <<current_state, ambulance_confidence, ambulance_start_time,
                   is_running, ambulance_count, completed_ambulances, now,
                   activated, emergency_began>>
    /\ SignalUnchanged

\* activate_ambulance, had the lane asked for more than the threshold
ActivateAmbulanceStrict(direction, confidence) ==
    /\ ambulance_count < MaxAmbulances
    /\ IF direction \in Lanes /\ confidence > ambulance_threshold
       THEN /\ ambulance_active' = [ambulance_active EXCEPT ![direction] = TRUE]
            /\ ambulance_confidence' =
                  [ambulance_confidence EXCEPT ![direction] = confidence]
            /\ ambulance_start_time' =
                  [ambulance_start_time EXCEPT ![direction] = <<now>>]
            /\ ambulance_count' = ambulance_count + 1
            /\ emergency_active' = TRUE
            /\ emergency_direction' = <<direction>>
            /\ emergency_start_time' = <<now>>
            /\ phase_elapsed_before_emergency' = phase_elapsed_time
            /\ phase_elapsed_time' = 0
            /\ last_op' = "activate"
            /\ activated' = <<[direction |-> direction,
                               from |-> current_state[direction]]>>
       ELSE /\ last_op' = "other"
            /\ UNCHANGED <<ambulance_active, ambulance_confidence,
                           ambulance_start_time, ambulance_count,
                           emergency_active, emergency_direction,
                           emergency_start_time,
                           phase_elapsed_before_emergency, phase_elapsed_time,
                           activated>>
    /\ UNCHANGED <<current_state, is_running, current_phase,
                   completed_ambulances, now>>
    /\ SignalUnchanged

\* IntersectionController.activate_ambulance(direction, confidence), with
\* IndianTrafficSignal.activate_ambulance
ActivateAmbulance(direction, confidence) ==
    /\ ambulance_count < MaxAmbulances
    /\ IF direction \in Lanes /\ confidence >= ambulance_threshold
       THEN /\ ambulance_active' = [ambulance_active EXCEPT ![direction] = TRUE]
            /\ ambulance_confidence' =
                  [ambulance_confidence EXCEPT ![direction] = confidence]
            /\ ambulance_start_time' =
                  [ambulance_start_time EXCEPT ![direction] = <<now>>]
            /\ ambulance_count' = ambulance_count + 1
            /\ emergency_active' = TRUE
            /\ emergency_direction' = <<direction>>
            /\ emergency_start_time' = <<now>>
            /\ phase_elapsed_before_emergency' = phase_elapsed_time
            /\ phase_elapsed_time' = 0
            /\ last_op' = "activate"
            /\ activated' = <<[direction |-> direction,
                               from |-> current_state[direction]]>>
       ELSE /\ last_op' = "other"
            /\ UNCHANGED <<ambulance_active, ambulance_confidence,
                           ambulance_start_time, ambulance_count,
                           emergency_active, emergency_direction,
                           emergency_start_time,
                           phase_elapsed_before_emergency, phase_elapsed_time,
                           activated>>
    /\ UNCHANGED <<current_state, is_running, current_phase,
                   completed_ambulances, now>>
    /\ SignalUnchanged

\* IntersectionController.update(delta_time)
Update_(delta_time) ==
    /\ last_op' = "update"
    /\ IF ~is_running
       THEN UNCHANGED <<laneVars, controllerVars>>
       ELSE LET active == LaneUpdate
                cleared ==
                   /\ emergency_active
                   /\ emergency_start_time # None
                   /\ now - emergency_start_time[1] > emergency_seconds
                em_active == emergency_active /\ ~cleared
                em_direction == IF cleared THEN None ELSE emergency_direction
                resumed == IF cleared THEN phase_elapsed_before_emergency
                           ELSE phase_elapsed_time
                advanced == resumed + delta_time
                next_phase == advanced >= phase_timings[current_phase]
                phase == IF ~em_active /\ next_phase
                         THEN (current_phase % 9) + 1 ELSE current_phase
            IN /\ ambulance_active' = active
               /\ emergency_active' = em_active
               /\ emergency_direction' = em_direction
               /\ completed_ambulances' =
                     IF cleared THEN completed_ambulances + 1
                     ELSE completed_ambulances
               /\ phase_elapsed_time' =
                     IF em_active THEN resumed
                     ELSE IF next_phase THEN 0 ELSE advanced
               /\ current_phase' = phase
               /\ current_state' =
                     UpdatePhaseStates(active, em_active, em_direction, phase)
               /\ UNCHANGED <<ambulance_confidence, ambulance_start_time,
                              is_running, emergency_start_time,
                              phase_elapsed_before_emergency, ambulance_count>>
    /\ UNCHANGED <<now, activated, emergency_began>>
    /\ SignalUnchanged

\* the wall clock goes on between two calls
Tick ==
    /\ now + TickSeconds <= MaxNow
    /\ now' = now + TickSeconds
    /\ last_op' = IF last_op \in {"activate", "waited"} THEN "waited" ELSE "other"
    /\ UNCHANGED <<laneVars, controllerVars, activated, emergency_began>>
    /\ SignalUnchanged

\* DetectionController.__init__: detection is not running, no request yet
DetectionControllerInit ==
    /\ detection_is_running = FALSE
    /\ requests = 0
    /\ last_request = "none"
    /\ last_response = "none"

\* DetectionStreamingRunner.__init__ and start: nothing scheduled, nothing
\* sent; the flag is down and no detection thread exists
RunnerInit ==
    /\ runner_pc = "loop"
    /\ pending_metrics = 0
    /\ metrics = None
    /\ snapshots = {}
    /\ runner_is_running = FALSE
    /\ detection_thread = 0
    /\ thread_pc = [t \in 1..MaxThreads |-> "unborn"]
    /\ stop_pc = "idle"
    /\ DetectionControllerInit

DetectorInit ==
    /\ vehicle_count = 0
    /\ count_line_y = None
    /\ frame_count = 0
    /\ ambulance_detected = FALSE
    /\ last_ambulance_detection = 0
    /\ raised = FALSE
    /\ swallowed = FALSE
    /\ decode_error = FALSE
    /\ invalid_count = 0
    /\ tracker_input = <<>>

\* The tracker on its own, as ONNXTrafficDetector.__init__ builds it.
InitTracker ==
    /\ TrackerInit /\ DetectorInit /\ lane_enabled = FALSE /\ scenario_box = <<>>
    /\ NmsInit /\ GateInit /\ ambulance_model = FALSE /\ RunnerInit /\ SignalInit
NextTracker == UpdateEmpty \/ UpdateDetections
SpecTracker == InitTracker /\ [][NextTracker]_vars

\* The tracker alone, fed candidate lists that put several candidates within
\* reach of one track and one candidate within reach of several tracks: from
\* a track at A the candidate C is nearer than B, from a track at C the
\* candidate B (49 px) is nearer than A (51 px).
MatchInputs ==
    {<<DetA>>, <<DetC, DetA>>, <<DetB, DetC>>, <<DetA, DetB>>}

UpdateCandidates ==
    /\ fed < MaxMatchCalls
    /\ \E detections \in MatchInputs : TrackerUpdate(detections)

NextMatch == UpdateEmpty \/ UpdateCandidates
SpecMatch == InitTracker /\ [][NextMatch]_vars

\* The detector; load_lane_config decides lane_enabled once.
Init ==
    /\ TrackerInit /\ DetectorInit /\ lane_enabled \in BOOLEAN /\ scenario_box = <<>>
    /\ NmsInit /\ GateInit /\ ambulance_model = FALSE /\ RunnerInit /\ SignalInit
Next == Frame
Spec == Init /\ [][Next]_vars

\* The end-to-end scenario: zone counting, one candidate a frame for 40
\* frames whose centre starts at (100, 50) px and moves 12.5 px a frame in
\* y, then frames without candidates.  scenario_box is the candidate's half
\* width and half height in pixels.
ScenarioBoxes == {<<10, 10>>, <<20, 10>>, <<10, 20>>, <<20, 20>>}

ScenarioInput(k) ==
    LET cx == Half(100)
        cy == Half(50) + 25 * k
        w == Half(scenario_box[1])
        h == Half(scenario_box[2])
    IN IF k < 40
       THEN <<[bbox |-> <<cx - w, cy - h, cx + w, cy + h>>, confidence |-> 90,
               class_name |-> "vehicle"]>>
       ELSE <<>>

ScenarioFrame ==
    /\ frame_count < MaxScenarioFrames
    /\ ProcessFrame(ScenarioInput(frame_count))

InitE2E ==
    /\ TrackerInit /\ DetectorInit /\ lane_enabled = TRUE
    /\ scenario_box \in ScenarioBoxes
    /\ NmsInit /\ GateInit /\ ambulance_model = FALSE /\ RunnerInit /\ SignalInit
NextE2E == ScenarioFrame
SpecE2E == InitE2E /\ [][NextE2E]_vars

\* process_frame with lane counting on, fed frames in which a vehicle can
\* move fast: from A to C (51 px) and on to B (49 px more) in three frames.
ZoneInputs == {<<>>, <<DetA>>, <<DetC>>, <<DetB>>}

ZoneFrame ==
    /\ frame_count < MaxZoneFrames
    /\ \E all_detections \in ZoneInputs : ProcessFrame(all_detections)

InitZone ==
    /\ TrackerInit /\ DetectorInit /\ lane_enabled = TRUE /\ scenario_box = <<>>
    /\ NmsInit /\ GateInit /\ ambulance_model = FALSE /\ RunnerInit /\ SignalInit
NextZone == ZoneFrame
SpecZone == InitZone /\ [][NextZone]_vars

\* One call of non_max_suppression on any boxes and scores.
InitNMS ==
    /\ TrackerInit /\ DetectorInit /\ lane_enabled = FALSE /\ scenario_box = <<>>
    /\ GateInit /\ ambulance_model = FALSE /\ RunnerInit /\ SignalInit
    /\ nms_boxes \in SeqsUpTo(NmsBoxes, MaxBoxes)
    /\ nms_scores \in [DOMAIN nms_boxes -> NmsScores]
    /\ nms_order = <<>>
    /\ nms_keep = None
NextNMS == Suppress
SpecNMS == InitNMS /\ [][NextNMS]_vars

\* The Stability Gate fed frame after frame.
InitGate ==
    /\ TrackerInit /\ DetectorInit /\ lane_enabled = FALSE /\ scenario_box = <<>>
    /\ NmsInit /\ GateInit /\ ambulance_model = FALSE /\ RunnerInit /\ SignalInit
NextGate == GateFrame
SpecGate == InitGate /\ [][NextGate]_vars

\* The gate alone, fed single detections of differing strength: Dim has
\* confidence 0.08, the lowest that gets no low-confidence boost.
Dim == GateDet(<<100, 100, 140, 140>>, 80, 0, None)
StabilityInputs == {<<>>, <<Good>>, <<Dim>>, <<Weak>>, <<Far>>}

StabilityFrame ==
    /\ gate_calls < MaxStabilityFrames
    /\ \E detections \in StabilityInputs : ApplyEnhancedTemporalAnalysis(detections)

NextStability == StabilityFrame
SpecStability == InitGate /\ [][NextStability]_vars

\* The detections the gate returns, as process_frame hands them to the
\* tracker: class_name 'ambulance', the box in half pixels, the confidence
\* left in 10^-9.
AmbulanceDetections(output) ==
    [i \in DOMAIN output |->
       [bbox |-> [k \in 1..4 |-> Half(output[i].bbox[k])],
        confidence |-> output[i].confidence,
        class_name |-> "ambulance"]]

\* the ambulance part, had an exception of the detector reached the handler
\* of process_frame: the gate and the status update are jumped over
AmbulanceStepSkipsGate(ambulance, ambulance_detections) ==
    IF ambulance_model /\ ~ambulance.raises
    THEN /\ \E R \in {GateResult(ambulance.detections)} :
               /\ SetGate(R, ambulance.detections)
               /\ ambulance_detections = AmbulanceDetections(R.output)
         /\ ambulance_detected' =
               IF ambulance_detections # <<>> THEN TRUE
               ELSE IF frame_count - last_ambulance_detection > ambulance_cooldown
               THEN FALSE ELSE ambulance_detected
         /\ last_ambulance_detection' =
               IF ambulance_detections # <<>> THEN frame_count
               ELSE last_ambulance_detection
         /\ swallowed' = FALSE
    ELSE /\ ambulance_detections = <<>>
         /\ swallowed' = ambulance_model
         /\ UNCHANGED <<gateVars, ambulance_detected, last_ambulance_detection>>

\* The ambulance part of process_frame (the try block): the detector and the
\* filters give ambulance.detections, or the detector raises, which
\* _detect_with_multiple_confidence_levels catches at every level; then the
\* gate, then the ambulance status.
AmbulanceStep(ambulance, ambulance_detections) ==
    IF ambulance_model
    THEN /\ \E R \in {GateResult(ambulance.detections)} :
               /\ SetGate(R, ambulance.detections)
               /\ ambulance_detections = AmbulanceDetections(R.output)
         /\ ambulance_detected' =
               IF ambulance_detections # <<>> THEN TRUE
               ELSE IF frame_count - last_ambulance_detection > ambulance_cooldown
               THEN FALSE ELSE ambulance_detected
         /\ last_ambulance_detection' =
               IF ambulance_detections # <<>> THEN frame_count
               ELSE last_ambulance_detection
         /\ swallowed' = ambulance.raises
    ELSE /\ ambulance_detections = <<>>
         /\ swallowed' = FALSE
         /\ UNCHANGED <<gateVars, ambulance_detected, last_ambulance_detection>>

\* process_frame(frame), whole.  The count line is set first; an exception
\* of self.vehicle_model.detect leaves the call there.
DetectFrame(vehicle, ambulance) ==
    \E line_y \in {CountLine} :
       /\ count_line_y' = <<line_y>>
       /\ IF vehicle.raises
          THEN /\ raised' = TRUE
               /\ swallowed' = FALSE
               /\ decode_error' = FALSE
               /\ invalid_count' = 0
               /\ tracker_input' = <<>>
               /\ UNCHANGED <<trackerVars, counterVars, vehicle_count,
                              frame_count, historyVars, gateVars,
                              ambulance_detected, last_ambulance_detection>>
          ELSE \E decoded \in Postprocess(vehicle.outputs, FrameHeight, FrameWidth) :
               \E vehicle_detections \in {FilterVehicleDetections(decoded.detections)} :
               \E ambulance_detections \in
                     {AmbulanceDetections(GateResult(ambulance.detections).output), <<>>} :
                  /\ AmbulanceStep(ambulance, ambulance_detections)
                  /\ TrackAndCount(vehicle_detections \o ambulance_detections, line_y)
                  /\ tracker_input' = vehicle_detections \o ambulance_detections
                  /\ raised' = FALSE
                  /\ decode_error' = decoded.error
                  /\ invalid_count' = decoded.invalid_count
                  /\ UNCHANGED fed
       /\ UNCHANGED <<lane_enabled, scenario_box, nmsVars, ambulance_model, runnerVars, signalVars,
                   lifecycleVars>>

DetectStep ==
    /\ frame_count < MaxDetectFrames
    /\ \E vehicle \in VehicleOutcomes :
       \E ambulance \in IF ambulance_model /\ ~vehicle.raises THEN AmbulanceOutcomes
                        ELSE {[raises |-> FALSE, detections |-> <<>>]} :
          DetectFrame(vehicle, ambulance)

\* The detector with its models: _initialize_models loads the ambulance model
\* or goes on without it, load_lane_config decides lane_enabled.
InitDetect ==
    /\ TrackerInit /\ DetectorInit /\ lane_enabled \in BOOLEAN /\ scenario_box = <<>>
    /\ NmsInit /\ GateInit /\ ambulance_model \in BOOLEAN /\ RunnerInit /\ SignalInit
NextDetect == DetectStep
SpecDetect == InitDetect /\ [][NextDetect]_vars

\* DetectionStreamingRunner: the detection thread runs process_frame frame
\* after frame and schedules _broadcast_metrics on the event loop, whose
\* thread runs it at any later moment.  A source of under 20 frames a second:
\* metric_interval = max(1, int(fps / 10)).
metric_interval == 1

\* what _broadcast_metrics reads from self.detector when it runs
LiveMetrics ==
    [frame_count |-> frame_count,
     vehicle_count |-> vehicle_count,
     active_vehicles |-> Cardinality(DOMAIN objects),
     ambulance_detected |-> ambulance_detected]

\* detection thread: process_frame up to the return of tracker.update
RunTrack ==
    /\ runner_pc = "loop"
    /\ frame_count < MaxRunnerFrames
    /\ \E all_detections \in FrameInputs :
       \E R \in {Update(Tracker, all_detections)} :
          /\ R.T.next_id <= MaxTracks
          /\ SetTracker(R)
          /\ count_line_y' = <<CountLine>>
          /\ last_call' = IF all_detections = <<>> THEN "empty" ELSE "detections"
    /\ runner_pc' = "tracked"
    /\ UNCHANGED <<counterVars, vehicle_count, lane_enabled, frame_count,
                   count_events, fed, scenario_box, nmsVars, gateVars,
                   ambulanceVars, callVars, pending_metrics, metrics, snapshots, signalVars,
                   lifecycleVars>>

\* detection thread: the counting loop of process_frame
RunCount ==
    /\ runner_pc = "tracked"
    /\ \E D \in {CountLoop([C |-> Counter, vehicle_count |-> vehicle_count,
                            events |-> count_events],
                           object_keys, trajectory_points, lane_enabled,
                           CountLine)} :
          /\ counted_ids' = D.C.counted_ids
          /\ crossed_ids' = D.C.crossed_ids
          /\ zone_entry_positions' = D.C.zone_entry_positions
          /\ vehicle_count' = D.vehicle_count
          /\ count_events' = D.events
    /\ runner_pc' = "counted"
    /\ UNCHANGED <<trackerVars, lane_enabled, count_line_y, frame_count,
                   assigned_ids, since_seen, last_call, fed, scenario_box,
                   nmsVars, gateVars, ambulanceVars, callVars,
                   pending_metrics, metrics, snapshots, signalVars,
                   lifecycleVars>>

\* detection thread: frame_count += 1, process_frame returns, and the loop
\* schedules _broadcast_metrics every metric_interval frames
RunFinish ==
    /\ runner_pc = "counted"
    /\ frame_count' = frame_count + 1
    /\ pending_metrics' =
          IF (frame_count + 1) % metric_interval = 0
          THEN pending_metrics + 1 ELSE pending_metrics
    /\ snapshots' = snapshots \cup {[LiveMetrics EXCEPT !.frame_count = frame_count + 1]}
    /\ runner_pc' = "loop"
    /\ UNCHANGED <<trackerVars, counterVars, vehicle_count, lane_enabled,
                   count_line_y, historyVars, scenario_box, nmsVars, gateVars,
                   ambulanceVars, callVars, metrics, signalVars,
                   lifecycleVars>>

\* event loop thread: one scheduled _broadcast_metrics runs
BroadcastMetrics ==
    /\ pending_metrics > 0
    /\ metrics' = <<LiveMetrics>>
    /\ pending_metrics' = pending_metrics - 1
    /\ UNCHANGED <<trackerVars, counterVars, detectorVars, historyVars,
                   scenario_box, nmsVars, gateVars, ambulanceVars, callVars,
                   runner_pc, snapshots, signalVars,
                   lifecycleVars>>

InitRunner ==
    /\ TrackerInit /\ DetectorInit /\ lane_enabled \in BOOLEAN /\ scenario_box = <<>>
    /\ NmsInit /\ GateInit /\ ambulance_model = FALSE /\ RunnerInit /\ SignalInit
NextRunner == RunTrack \/ RunCount \/ RunFinish \/ BroadcastMetrics
SpecRunner == InitRunner /\ [][NextRunner]_vars

\* The intersection: four lanes added, then any calls at any wall-clock times.
InitSignal ==
    /\ TrackerInit /\ DetectorInit /\ lane_enabled = FALSE /\ scenario_box = <<>>
    /\ NmsInit /\ GateInit /\ ambulance_model = FALSE /\ RunnerInit /\ SignalInit
ControllerUpdate == \E delta_time \in DeltaTimes : Update_(delta_time)
Activate ==
    /\ \E direction \in Directions : \E confidence \in Confidences :
          ActivateAmbulance(direction, confidence)
    /\ UNCHANGED emergency_began
NextSignal == Start \/ Stop \/ Reset \/ Activate \/ ControllerUpdate \/ Tick
SpecSignal == InitSignal /\ [][NextSignal]_vars

\* The intersection in normal operation: started once, no ambulance, then
\* update called again and again while the wall clock goes on.
StartOnce == ~is_running /\ Start
NextCycle == StartOnce \/ ControllerUpdate \/ Tick
SpecCycle ==
    /\ InitSignal /\ [][NextCycle]_vars
    /\ WF_vars(StartOnce) /\ WF_vars(ControllerUpdate)

\* The running intersection with activate_ambulance calls at any time, each
\* call that starts an emergency noting in emergency_began the phase timer it
\* interrupts; a call made while an emergency is under way leaves the note.
ActivateNoted ==
    /\ \E direction \in Directions : \E confidence \in Confidences :
          ActivateAmbulance(direction, confidence)
    /\ emergency_began' =
          IF last_op' = "activate" /\ ~emergency_active
          THEN <<phase_elapsed_time>> ELSE emergency_began
NextResume == StartOnce \/ ActivateNoted \/ ControllerUpdate \/ Tick
SpecResume == InitSignal /\ [][NextResume]_vars

\* ------------------------------------------- the life of the detection loop
\* DetectionStreamingRunner starts _run_detection_loop on a thread of its own;
\* start, stop and the request handlers of DetectionController run on the
\* event loop, one at a time.  A thread is "unborn" before its start, then
\* "open" (building the detector and opening the source), "test" (at the
\* while test), "frame" (reading and processing one frame), "ending" (out of
\* the loop, before the finally clause), "cleanup" (after the finally clause
\* has cleared the flag) and "dead".
LifecycleUnchanged ==
    UNCHANGED <<trackerVars, counterVars, detectorVars, historyVars,
                scenario_box, nmsVars, gateVars, ambulanceVars, callVars,
                runnerVars, signalVars>>

\* threading.Thread.is_alive
Alive(t) == thread_pc[t] \notin {"unborn", "dead"}

\* the threads inside the try block of _run_detection_loop
LoopThreads == {t \in 1..MaxThreads : thread_pc[t] \in {"open", "test", "frame", "ending"}}

\* start(): nothing when the flag is up, else the flag is raised and a new
\* thread is started and kept in detection_thread
StartCall ==
    IF runner_is_running
    THEN UNCHANGED threadVars
    ELSE /\ runner_is_running' = TRUE
         /\ detection_thread' = detection_thread + 1
         /\ thread_pc' = [thread_pc EXCEPT ![detection_thread + 1] = "open"]
         /\ UNCHANGED stop_pc

\* stop() up to its join: the flag is lowered (detector.stop() does not
\* exist and its AttributeError is caught), and the caller waits in join when
\* detection_thread is alive
StopCall ==
    /\ runner_is_running' = FALSE
    /\ stop_pc' = IF detection_thread # 0 /\ Alive(detection_thread)
                  THEN "join" ELSE "idle"
    /\ UNCHANGED <<detection_thread, thread_pc>>

\* join(timeout=5) returns because the thread has ended
JoinEnds ==
    /\ stop_pc = "join"
    /\ ~Alive(detection_thread)
    /\ stop_pc' = "idle"
    /\ UNCHANGED <<runner_is_running, detection_thread, thread_pc>>

\* join(timeout=5) returns after 5 s with the thread still alive
JoinTimesOut ==
    /\ stop_pc = "join"
    /\ Alive(detection_thread)
    /\ stop_pc' = "idle"
    /\ UNCHANGED <<runner_is_running, detection_thread, thread_pc>>

RunnerStart ==
    /\ stop_pc = "idle"
    /\ runner_is_running \/ detection_thread < MaxThreads
    /\ StartCall
    /\ UNCHANGED requestVars
    /\ LifecycleUnchanged

RunnerStop ==
    /\ stop_pc = "idle"
    /\ StopCall
    /\ UNCHANGED requestVars
    /\ LifecycleUnchanged

RunnerJoin ==
    /\ JoinEnds \/ JoinTimesOut
    /\ UNCHANGED requestVars
    /\ LifecycleUnchanged

\* one step of thread t from pc `from` to pc `to`
ThreadStep(t, from, to) ==
    /\ thread_pc[t] = from
    /\ thread_pc' = [thread_pc EXCEPT ![t] = to]
    /\ UNCHANGED <<detection_thread, stop_pc, requestVars>>
    /\ LifecycleUnchanged

\* the detector is built and the source opens
LoopOpens(t) == ThreadStep(t, "open", "test") /\ UNCHANGED runner_is_running

\* the source does not open (return), or building the detector raises
LoopCannotOpen(t) == ThreadStep(t, "open", "ending") /\ UNCHANGED runner_is_running

\* while self.is_running
LoopTest(t) ==
    /\ ThreadStep(t, "test", IF runner_is_running THEN "frame" ELSE "ending")
    /\ UNCHANGED runner_is_running

\* a frame is read and processed
FrameDone(t) == ThreadStep(t, "frame", "test") /\ UNCHANGED runner_is_running

\* end of video, a read error or an exception of process_frame: break
FrameEnds(t) == ThreadStep(t, "frame", "ending") /\ UNCHANGED runner_is_running

\* finally: self.is_running = False
LoopFinally(t) == ThreadStep(t, "ending", "cleanup") /\ runner_is_running' = FALSE

\* the thread function returns
ThreadExits(t) == ThreadStep(t, "cleanup", "dead") /\ UNCHANGED runner_is_running

LoopThread ==
    \E t \in 1..MaxThreads :
        \/ LoopOpens(t) \/ LoopCannotOpen(t) \/ LoopTest(t) \/ FrameDone(t)
        \/ FrameEnds(t) \/ LoopFinally(t) \/ ThreadExits(t)

NextLifecycle == RunnerStart \/ RunnerStop \/ RunnerJoin \/ LoopThread
InitLifecycle ==
    /\ TrackerInit /\ DetectorInit /\ lane_enabled = FALSE /\ scenario_box = <<>>
    /\ NmsInit /\ GateInit /\ ambulance_model = FALSE /\ RunnerInit /\ SignalInit
SpecLifecycle == InitLifecycle /\ [][NextLifecycle]_vars

\* DetectionController on top of the runner (the integrated mode: the
\* controller owns a DetectionStreamingRunner).  Its handlers run on the
\* event loop one at a time; stop_detection blocks it while stop() joins.
\* POST start_detection
StartDetection ==
    /\ stop_pc = "idle"
    /\ requests < MaxRequests
    /\ detection_is_running \/ runner_is_running \/ detection_thread < MaxThreads
    /\ requests' = requests + 1
    /\ last_request' = "start_detection"
    /\ IF detection_is_running
       THEN /\ last_response' = "already running"
            /\ UNCHANGED <<detection_is_running, threadVars>>
       ELSE /\ StartCall
            /\ detection_is_running' = TRUE
            /\ last_response' = "started"
    /\ LifecycleUnchanged

\* POST stop_detection, up to the join of the runner's stop() when it has
\* to wait for the thread
StopDetection ==
    /\ stop_pc = "idle"
    /\ requests < MaxRequests
    /\ requests' = requests + 1
    /\ last_request' = "stop_detection"
    /\ IF ~detection_is_running
       THEN /\ last_response' = "not running"
            /\ UNCHANGED <<detection_is_running, threadVars>>
       ELSE IF runner_is_running
       THEN /\ StopCall
            /\ detection_is_running' = (stop_pc' = "join")
            /\ last_response' = IF stop_pc' = "join" THEN "pending" ELSE "stopped"
       ELSE /\ detection_is_running' = FALSE
            /\ last_response' = "stopped"
            /\ UNCHANGED threadVars
    /\ LifecycleUnchanged

\* the join of stop() returns and stop_detection finishes
StopDetectionReturn ==
    /\ JoinEnds \/ JoinTimesOut
    /\ detection_is_running' = FALSE
    /\ last_response' = "stopped"
    /\ UNCHANGED <<requests, last_request>>
    /\ LifecycleUnchanged

NextController == StartDetection \/ StopDetection \/ StopDetectionReturn \/ LoopThread
SpecController == InitLifecycle /\ [][NextController]_vars

\* ---------------------------------------------------------------- claims
LastY(id) == trajectory_points[id][Len(trajectory_points[id])][2]

\* C1: the ids _register hands out over the life of a tracker strictly
\* increase with registration order, so no id is handed out twice, the ids
\* of deregistered tracks included.
C1_IdsNeverReused ==
    \A i, j \in 1..Len(assigned_ids) : i < j => assigned_ids[i] < assigned_ids[j]

\* Track 0 has been deregistered and track 1 was registered after that.
C1_Witness ==
    /\ object_keys = <<1>>
    /\ 0 \notin DOMAIN objects
    /\ disappeared[1] = 0
    /\ Len(trajectory_points[1]) = 1

\* C2: every track id makes vehicle_count increase at most once: no id occurs
\* twice among the count events, and vehicle_count is the number of events.
C2_CountedOnce ==
    /\ vehicle_count = Len(count_events)
    /\ \A i, j \in 1..Len(count_events) : i # j => count_events[i] # count_events[j]

\* A counted track is matched in a later frame and satisfies the zone rule
\* again (its last two points both lie min_movement_to_count past its entry).
C2_Witness ==
    /\ lane_enabled
    /\ \E id \in counted_ids \cap DOMAIN objects :
          LET pts == trajectory_points[id]
              E == zone_entry_positions[id]
          IN /\ Len(pts) >= 6
             /\ disappeared[id] = 0
             /\ pts[Len(pts)][2] - E >= Quarter(min_movement_to_count)
             /\ pts[Len(pts) - 1][2] - E >= Quarter(min_movement_to_count)
             /\ pts[Len(pts) - 2][2] - E < Quarter(min_movement_to_count)

\* C3, as claimed: a track is in the table while it has gone at most
\* max_disappeared update calls unmatched since it was created or last
\* matched, and is gone after one more.
C3_SurvivesThirtyFrames ==
    \A id \in DOMAIN since_seen :
       /\ since_seen[id] <= max_disappeared => id \in DOMAIN objects
       /\ since_seen[id] > max_disappeared => id \notin DOMAIN objects

\* C4: an update call with no candidates leaves next_id alone, creates no
\* track, adds exactly 1 to the counter of every track, removes the tracks
\* whose counter passes max_disappeared and leaves bbox, class, confidence
\* and trajectory of the others as they were.
C4_EmptyUpdate ==
    [][last_call' = "empty" =>
         /\ next_id' = next_id
         /\ DOMAIN objects' \subseteq DOMAIN objects
         /\ \A id \in DOMAIN objects :
               IF disappeared[id] + 1 > max_disappeared
               THEN id \notin DOMAIN objects'
               ELSE /\ id \in DOMAIN objects'
                    /\ disappeared'[id] = disappeared[id] + 1
                    /\ objects'[id] = objects[id]
                    /\ trajectory_points'[id] = trajectory_points[id]]_vars

\* An empty update has just taken a track to max_disappeared and left it in
\* the table, next to a track it has just removed.
C4_Witness ==
    /\ last_call = "empty"
    /\ \E id \in DOMAIN objects : disappeared[id] = max_disappeared
    /\ \E id \in DOMAIN since_seen : id \notin DOMAIN objects

\* C5: no frame makes vehicle_count smaller.
C5_CountMonotone == [][vehicle_count' >= vehicle_count]_vars

\* A frame has counted a vehicle and a later frame without detections has
\* kept the count.
C5_Witness == vehicle_count >= 1 /\ last_call = "empty" /\ frame_count >= 3

\* C6, as claimed: in the end-to-end scenario one track is created, at frame
\* 0, and one count event is emitted, while frame 4 is processed (the fifth
\* process_frame call, after which frame_count is 5).
C6_EndToEnd ==
    /\ frame_count >= 1 => assigned_ids = <<0>>
    /\ frame_count <= 4 => vehicle_count = 0
    /\ frame_count >= 5 => vehicle_count = 1 /\ count_events = <<0>>

\* C7: under line crossing, a track not yet counted whose last two
\* trajectory points lie strictly on opposite sides of the line is counted
\* in that frame, in either direction; with both strictly on one side it is
\* not.
C7_LineBothDirections ==
    [][~lane_enabled =>
         \A id \in DOMAIN objects' \ crossed_ids :
            LET pts == trajectory_points'[id]
                y_prev == pts[Len(pts) - 1][2]
                y_curr == pts[Len(pts)][2]
                L == Quarter(count_line_y'[1])
            IN Len(pts) >= 2 =>
                 /\ ((y_prev < L /\ L < y_curr) \/ (y_prev > L /\ L > y_curr))
                       => /\ id \in crossed_ids'
                          /\ vehicle_count' > vehicle_count
                          /\ \E i \in 1..Len(count_events') : count_events'[i] = id
                 /\ ((y_prev < L /\ y_curr < L) \/ (y_prev > L /\ y_curr > L))
                       => id \notin crossed_ids']_vars

\* FirstCrossing(id, up): the first two neighbouring points of id's
\* trajectory on opposite sides of the line go up (y grows) or down.
FirstCrossing(id, up) ==
    LET pts == trajectory_points[id]
        L == Quarter(count_line_y[1])
        Crosses(i) == \/ (pts[i][2] < L /\ L < pts[i + 1][2])
                      \/ (pts[i][2] > L /\ L > pts[i + 1][2])
    IN \E i \in 1..(Len(pts) - 1) :
          /\ Crosses(i)
          /\ \A k \in 1..(i - 1) : ~Crosses(k)
          /\ up <=> pts[i][2] < pts[i + 1][2]

\* Two counted tracks, one whose crossing went down and one whose went up.
C7_Witness ==
    /\ ~lane_enabled
    /\ vehicle_count = 2
    /\ \E a, b \in crossed_ids \cap DOMAIN objects :
          FirstCrossing(a, TRUE) /\ FirstCrossing(b, FALSE)

\* C8: under zone counting, a track not yet counted whose entry y is
\* recorded is counted in a frame exactly when its current centre y is at
\* least min_movement_to_count above the entry y: not at entry + 49, at
\* entry + 50, and never below the entry.
C8_ZoneBoundary ==
    [][lane_enabled =>
         \A id \in (DOMAIN objects' \cap DOMAIN zone_entry_positions') \ counted_ids :
            LET pts == trajectory_points'[id]
                current_y == pts[Len(pts)][2]
                entry_y == zone_entry_positions'[id]
            IN /\ id \in counted_ids' <=>
                     current_y >= entry_y + Quarter(min_movement_to_count)
               /\ current_y < entry_y => id \notin counted_ids'
               /\ id \in DOMAIN zone_entry_positions =>
                     entry_y = zone_entry_positions[id]]_vars

\* One track was left uncounted at entry + 49 and counted one frame later at
\* entry + 50, while another has moved 50 px and more the other way and is
\* not counted.
C8_Witness ==
    /\ lane_enabled
    /\ \E id \in counted_ids \cap DOMAIN objects :
          LET pts == trajectory_points[id]
              E == zone_entry_positions[id]
          IN /\ Len(pts) = 6
             /\ pts[6][2] = E + Quarter(min_movement_to_count)
             /\ pts[5][2] = E + Quarter(min_movement_to_count) - Quarter(1)
    /\ \E id \in DOMAIN objects \ counted_ids :
          /\ id \in DOMAIN zone_entry_positions
          /\ LastY(id) <= zone_entry_positions[id] - Quarter(min_movement_to_count)

\* The result of the suppression call as a set of indices, the place of an
\* index in the sorted order, and whether two boxes overlap above iou_thres.
Kept == {nms_keep[1][i] : i \in DOMAIN nms_keep[1]}
Rank(k) == CHOOSE r \in DOMAIN nms_order : nms_order[r] = k
Overlap(i, j) == IouAbove(nms_boxes[i], nms_boxes[j], iou_thres)

C10_ThreeOfFiveStable ==
    (gate_clean /\ Len(ambulance_detection_history) >= 5) =>
       LET detected == CountTrue(LastN(ambulance_detection_history, 5))
       IN /\ detected = 3 => ambulance_stable
          /\ detected = 2 => ~ambulance_stable

\* C11: while the detection history of the gate holds fewer than
\* min_tracklet_frames samples the gate is unstable, whatever the frames held.
C11_UnfilledUnstable ==
    Len(ambulance_detection_history) < min_tracklet_frames
       => ~ambulance_stable /\ stable_frames_count = 0

\* Two frames, each with the confident detections Good and Far, and the gate
\* has evaluated to unstable.
C11_Witness ==
    /\ gate_calls = 2
    /\ ambulance_detection_history = <<TRUE, TRUE>>
    /\ Len(ambulance_confidence_history) = 4
    /\ Len(gate_output) = 2
    /\ ~ambulance_stable

\* C12, as claimed: after every update call each track in the table has a
\* disappearance counter equal to the number of consecutive update calls
\* since it was last matched or created, at most max_disappeared, and no
\* track within that bound has been removed.
C12_TableWithinBound ==
    /\ \A id \in DOMAIN objects :
          /\ disappeared[id] = since_seen[id]
          /\ disappeared[id] <= max_disappeared
    /\ \A id \in DOMAIN since_seen :
          since_seen[id] <= max_disappeared => id \in DOMAIN objects

\* C13: no box of non-positive area after the remap and the clip (x2 <= x1 or
\* y2 <= y1) is among the detections process_frame hands to tracker.update.
C13_NoDegenerateToTracker ==
    \A i \in DOMAIN tracker_input :
       /\ tracker_input[i].bbox[3] > tracker_input[i].bbox[1]
       /\ tracker_input[i].bbox[4] > tracker_input[i].bbox[2]

\* a frame whose decoding dropped a degenerate box and passed another one on
C13_Witness ==
    /\ invalid_count >= 1
    /\ tracker_input # <<>>
    /\ ~raised

C15_SourceExceptionPropagates == swallowed => raised

\* C16, as claimed: a call in which the decoder was given a tensor of malformed
\* shape ends with the decoder's error at the caller; the decoder returns no
\* detection list for it and the frame does not go on.
C16_MalformedFailsFast == decode_error => raised

\* C17, as claimed: the metrics a broadcast reports are those of a snapshot
\* taken by the detection thread at the end of a frame; no report mixes the
\* track table of a frame under way with the counters of the frame before.
C17_ReportsAreSnapshots == metrics # None => metrics[1] \in snapshots

\* C18, as claimed: in every state the controller reaches by start, update,
\* activate_ambulance and reset calls at most one lane is GREEN or EMERGENCY.
C18_AtMostOneGo ==
    Cardinality({lane_id \in Lanes :
                    current_state[lane_id] \in {"GREEN", "EMERGENCY"}}) <= 1

\* C19, as claimed: the update that follows a successful activate_ambulance on
\* a running controller leaves every lane but the ambulance's in RED.
C19_OthersRed ==
    [][(/\ last_op = "activate"
        /\ is_running
        /\ last_op' = "update")
       => \A lane_id \in Lanes \ {activated[1].direction} :
             current_state'[lane_id] = "RED"]_vars

\* C20: whatever state the lane is in, the update that follows a successful
\* activate_ambulance for it on a running controller leaves the lane in
\* EMERGENCY.
C20_PriorityOverrides ==
    [][(/\ last_op = "activate"
        /\ is_running
        /\ last_op' = "update")
       => current_state'[activated[1].direction] = "EMERGENCY"]_vars

\* the lane was ALL_RED when its ambulance was activated, and the update
\* after the activation has run
C20_Witness ==
    /\ last_op = "update"
    /\ is_running
    /\ activated # None
    /\ activated[1].from = "ALL_RED"
    /\ ambulance_count = 1
    /\ current_state[activated[1].direction] = "EMERGENCY"
    /\ now = 0

\* C21: activate_ambulance activates exactly when the lane exists and the
\* confidence is at least 0.80.  Then the lane is ambulance_active with the
\* confidence stored, the emergency is active for it, the counter is one
\* higher and the phase timer is saved and set to 0; otherwise no field of
\* any lane or of the controller changes.
C21_ActivatesAtThreshold ==
    [][\A direction \in Directions : \A confidence \in Confidences :
          (/\ last_op' \in {"activate", "other"}
           /\ ActivateAmbulance(direction, confidence)) =>
             IF direction \in Lanes /\ confidence >= 80
             THEN /\ ambulance_active'[direction]
                  /\ ambulance_confidence'[direction] = confidence
                  /\ emergency_active'
                  /\ emergency_direction' = <<direction>>
                  /\ ambulance_count' = ambulance_count + 1
                  /\ phase_elapsed_before_emergency' = phase_elapsed_time
                  /\ phase_elapsed_time' = 0
             ELSE UNCHANGED <<laneVars, controllerVars>>]_vars

\* a lane activated with confidence 0.80 itself, while a phase was under way
C21_Witness ==
    /\ last_op = "activate"
    /\ ambulance_confidence[activated[1].direction] = 80
    /\ ambulance_active[activated[1].direction]
    /\ emergency_active
    /\ phase_elapsed_before_emergency > 0

\* C22, as claimed: while no ambulance has been activated, an update changes
\* a lane's state only along RED -> GREEN -> YELLOW -> ALL_RED -> RED.
C22_CycleOrder ==
    [][(ambulance_count = 0 /\ is_running /\ last_op' = "update")
       => \A lane_id \in Lanes :
             \/ current_state'[lane_id] = current_state[lane_id]
             \/ <<current_state[lane_id], current_state'[lane_id]>> \in
                   {<<"RED", "GREEN">>, <<"GREEN", "YELLOW">>,
                    <<"YELLOW", "ALL_RED">>, <<"ALL_RED", "RED">>}]_vars

\* C26, as claimed: while no ambulance has been activated, right of way never
\* passes from one lane to another without an ALL_RED update between: no
\* update that starts with one lane GREEN or YELLOW ends with another lane
\* GREEN.
C26_AllRedBetween ==
    [][(ambulance_count = 0 /\ is_running /\ last_op' = "update")
       => ~\E lane_id \in Lanes : \E other \in Lanes \ {lane_id} :
              /\ current_state[lane_id] \in {"GREEN", "YELLOW"}
              /\ current_state'[other] = "GREEN"]_vars

\* C24, as claimed: when reset() returns from a call made during an
\* emergency, every lane is RED and no lane is ambulance_active.
C24_ResetClearsAtOnce ==
    [][(Reset /\ emergency_active)
       => \A lane_id \in Lanes :
             /\ current_state'[lane_id] = "RED"
             /\ ~ambulance_active'[lane_id]]_vars

\* C23, as claimed: the emergency lasts 45 s of the time the updates add up,
\* however much wall-clock time they take; so the first update after a
\* successful activate_ambulance, which adds 5 s, leaves the lane in
\* EMERGENCY whatever the wall clock has done since the activation.
C23_LastsInUpdateTime ==
    [][(/\ last_op \in {"activate", "waited"}
        /\ is_running
        /\ last_op' = "update")
       => current_state'[activated[1].direction] = "EMERGENCY"]_vars

\* C25: in normal operation of a running controller that is updated again and
\* again, every lane is GREEN infinitely often.
C25_EveryLaneGreen ==
    \A lane_id \in Lanes : []<>(current_state[lane_id] = "GREEN")

\* the last GREEN of a cycle: east, in phase 7, about to turn YELLOW
C25_Witness ==
    /\ is_running
    /\ ambulance_count = 0
    /\ current_phase = 7
    /\ current_state["east"] = "GREEN"
    /\ phase_elapsed_time = 300

\* C27, as claimed: a track registered during an update call has
\* disappearance counter 0 when the call returns, whether the table was empty
\* or held other tracks.
C27_RegisteredAtZero ==
    [][\A id \in DOMAIN objects' \ DOMAIN objects : disappeared'[id] = 0]_vars

\* C28: in an update call with candidates and a non-empty table, each track, in
\* the order the call visits them, is matched to the candidate nearest to its
\* centroid among those no earlier track has taken, provided that candidate is
\* strictly closer than max_distance; a track with no such candidate is left
\* unmatched.  A matched track leaves the call with its box smoothed towards
\* the candidate and disappearance counter 0, an unmatched one with its box
\* untouched and the counter raised.
C28_NearestBelowMax ==
    [][\A detections \in MatchInputs :
         (object_keys # <<>> /\ fed' # fed /\ TrackerUpdate(detections)) =>
         \A matches \in {Update(Tracker, detections).matches} :
         LET Taken(i) == {m[2] : m \in {p \in matches :
                                          \E k \in 1..(i - 1) : object_keys[k] = p[1]}}
             Free(i) == (1..Len(detections)) \ Taken(i)
             D(i, j) == Dist2(GetCenter(objects[object_keys[i]].bbox),
                              GetCenter(detections[j].bbox))
             Reach == Quarter(max_distance) * Quarter(max_distance)
         IN \A i \in 1..Len(object_keys) :
              LET id == object_keys[i]
                  mine == {m \in matches : m[1] = id}
              IN IF \E j \in Free(i) : D(i, j) < Reach
                 THEN \E j \in Free(i) :
                         /\ mine = {<<id, j>>}
                         /\ D(i, j) < Reach
                         /\ \A k \in Free(i) : D(i, j) <= D(i, k)
                         /\ objects'[id].bbox = SmoothBbox(objects[id].bbox,
                                                           detections[j].bbox)
                         /\ disappeared'[id] = 0
                 ELSE /\ mine = {}
                      /\ id \in DOMAIN objects' =>
                            /\ objects'[id] = objects[id]
                            /\ disappeared'[id] = disappeared[id] + 1]_vars

\* C28's case: track 0, registered at C, was offered A (51 px away) and then B
\* (49 px away) in one call; it took B and left A to track 1, which stood at A.
C28_Witness ==
    /\ DOMAIN objects = {0, 1}
    /\ objects[0].bbox = SmoothBbox(DetC.bbox, DetB.bbox)
    /\ objects[0].confidence = DetB.confidence
    /\ disappeared[0] = 0
    /\ objects[1].bbox = DetA.bbox
    /\ disappeared[1] = 0

\* C29: in an update call with candidates, every candidate ends in exactly one
\* role.  The pairs of track and candidate the call makes are one-to-one (no
\* candidate with two tracks, no track with two candidates), a paired candidate
\* leaves its class and confidence on that track, and the candidates left
\* unpaired are registered, in list order, as the new tracks next_id,
\* next_id + 1, ... with their own boxes: none is dropped, none registered twice.
C29_OneRolePerCandidate ==
    [][\A detections \in MatchInputs :
         (fed' # fed /\ TrackerUpdate(detections)) =>
         \A matches \in {Update(Tracker, detections).matches} :
         LET paired == {m[2] : m \in matches}
             unpaired == (1..Len(detections)) \ paired
             NewId(j) == next_id + Cardinality({k \in unpaired : k < j})
         IN /\ \A m1, m2 \in matches :
                  (m1[1] = m2[1] \/ m1[2] = m2[2]) => m1 = m2
            /\ \A m \in matches :
                  /\ m[1] \in DOMAIN objects
                  /\ m[2] \in 1..Len(detections)
                  /\ objects'[m[1]].class = detections[m[2]].class_name
                  /\ objects'[m[1]].confidence = detections[m[2]].confidence
            /\ DOMAIN objects' \ DOMAIN objects = {NewId(j) : j \in unpaired}
            /\ next_id' = next_id + Cardinality(unpaired)
            /\ \A j \in unpaired :
                  /\ objects'[NewId(j)].bbox = detections[j].bbox
                  /\ objects'[NewId(j)].class = detections[j].class_name
                  /\ objects'[NewId(j)].confidence = detections[j].confidence
            /\ \A id \in DOMAIN objects \cap DOMAIN objects' :
                  id \notin {m[1] : m \in matches} => objects'[id] = objects[id]]_vars

\* C29's case: with tracks at C and at A the call was given B and C; C updated
\* track 0, B (exactly max_distance from track 1) was registered as track 2, and
\* track 1 stayed as it was.
C29_Witness ==
    /\ DOMAIN objects = {0, 1, 2}
    /\ objects[0].bbox = DetC.bbox
    /\ objects[0].confidence = DetC.confidence
    /\ disappeared[0] = 0
    /\ objects[1].bbox = DetA.bbox
    /\ disappeared[1] = 1
    /\ objects[2].bbox = DetB.bbox
    /\ objects[2].confidence = DetB.confidence

\* C30: update visits the tracks in ascending numeric id.  After every step the
\* order in which the table is iterated (the insertion order of the dict) is
\* the ascending order of its ids, and every update call with candidates
\* returns the table an iteration in explicitly sorted id order would return.
C30_AscendingIdOrder ==
    [][/\ \A i, j \in DOMAIN object_keys' :
             i < j => object_keys'[i] < object_keys'[j]
       /\ {object_keys'[i] : i \in DOMAIN object_keys'} = DOMAIN objects'
       /\ \A detections \in MatchInputs :
             (fed' # fed /\ TrackerUpdate(detections)) =>
             LET ids == DOMAIN objects
                 ascending == CHOOSE s \in [1..Cardinality(ids) -> ids] :
                                 \A i, j \in 1..Cardinality(ids) :
                                    i < j => s[i] < s[j]
             IN /\ object_keys = ascending
                /\ Update(Tracker, detections).T =
                      Update([Tracker EXCEPT !.object_keys = ascending],
                             detections).T]_vars

\* C30's case: tracks 0 (at C) and 1 (at A) were offered the one candidate A;
\* track 0, visited first, took it from 51 px away and track 1, which stood on
\* it, went unmatched.
C30_Witness ==
    /\ object_keys = <<0, 1>>
    /\ objects[0].bbox = SmoothBbox(DetC.bbox, DetA.bbox)
    /\ objects[0].confidence = DetA.confidence
    /\ disappeared[0] = 0
    /\ objects[1].bbox = DetA.bbox
    /\ disappeared[1] = 1

\* C31, as claimed: when an update call matches a track to a candidate, the
\* point the call appends to the track's trajectory is the centroid of the
\* candidate's box, and the track's disappearance counter is 0.
C31_AppendsCandidateCentroid ==
    [][\A detections \in MatchInputs :
         (fed' # fed /\ TrackerUpdate(detections)) =>
         \A matches \in {Update(Tracker, detections).matches} :
         \A m \in matches :
            /\ disappeared'[m[1]] = 0
            /\ trajectory_points'[m[1]] # <<>>
            /\ trajectory_points'[m[1]][Len(trajectory_points'[m[1]])] =
                  GetCenter(detections[m[2]].bbox)]_vars

\* C32, as claimed: with zone counting, in every frame after the one that
\* first observed a track, if the track is not yet counted and the y of its
\* centroid lies at least min_movement below the y of its first observed
\* centroid, the track is counted by that frame.
C32_CountedInSameFrame ==
    [][\A id \in DOMAIN objects \cap DOMAIN objects' :
         (/\ lane_enabled
          /\ frame_count' = frame_count + 1
          /\ id \notin counted_ids
          /\ GetCenter(objects'[id].bbox)[2] - trajectory_points[id][1][2]
               >= Quarter(min_movement_to_count))
         => id \in counted_ids']_vars

\* C33, as claimed: the gate applies its acceptance threshold to a detection
\* before the detection enters the rolling window, so a call adds one
\* confidence sample and one position sample for each detection it accepts
\* and none for a detection it rejects, and the detected flag it records is
\* set only when a detection was accepted.
C33_ThresholdBeforeWindow ==
    [][gate_calls' = gate_calls + 1 =>
         /\ Len(ambulance_confidence_history') =
               Min(Len(ambulance_confidence_history) + Len(gate_output'),
                   confidence_history_maxlen)
         /\ Len(ambulance_position_history') =
               Min(Len(ambulance_position_history) + Len(gate_output'),
                   position_history_maxlen)
         /\ ambulance_detection_history'[Len(ambulance_detection_history')]
               = (gate_output' # <<>>)]_vars

\* C34: for every detection and every history the gate can hold, the threshold
\* applied while unstable is strictly higher than the one applied to the same
\* detection while stable, and a detection the filter accepts while unstable
\* it also accepts while stable (tried with the confidences at and just
\* below either threshold).
C34_UnstableStricter ==
    \A probe \in ThresholdDets(0) :
    \A u \in {UnstableThreshold(Gate, probe)} :
    \A s \in {StableThreshold(Gate, probe)} :
       /\ u > s
       /\ \A c \in {s - 1, s, u - 1, u} :
          \A det \in {[probe EXCEPT !.confidence = c]} :
             FilterByStabilityAndConfidence(Gate, <<det>>, FALSE) = <<det>>
               => FilterByStabilityAndConfidence(Gate, <<det>>, TRUE) = <<det>>

\* C34's case: the gate is stable after a call that returned a detection, its
\* history has reached the length at which it lowers the threshold, and
\* there is a detection the stable threshold accepts which the unstable one
\* would reject.
C34_Witness ==
    /\ ambulance_stable
    /\ gate_output # <<>>
    /\ Len(ambulance_detection_history) >= 5
    /\ \E det \in ThresholdDets(40000000) :
          /\ FilterByStabilityAndConfidence(Gate, <<det>>, TRUE) = <<det>>
          /\ FilterByStabilityAndConfidence(Gate, <<det>>, FALSE) = <<>>

\* C35, as claimed: once the detection history holds min_tracklet_frames
\* samples, the gate is stable after a call if and only if all four hold: the
\* fraction of detected frames is at least stability_ratio, the mean of the
\* confidence samples is at least min_confidence_for_stability, their standard
\* deviation is at most 0.25 and the variance of the positions is at most
\* 50000.  The windows are the ones the code takes (the last
\* min_tracklet_frames flags and confidences, the last 5 positions), and a
\* condition on samples is taken to hold when there is no sample at all.
C35_StableIffFour ==
    (gate_calls >= 1 /\ Len(ambulance_detection_history) >= min_tracklet_frames) =>
       LET recent_detections ==
               LastN(ambulance_detection_history, min_tracklet_frames)
           recent_confidences ==
               LastN(ambulance_confidence_history, min_tracklet_frames)
           recent_positions == LastN(ambulance_position_history, 5)
       IN ambulance_stable <=>
            /\ 100 * CountTrue(recent_detections)
                  >= stability_ratio * Len(recent_detections)
            /\ SumSeq(recent_confidences)
                  >= min_confidence_for_stability * Len(recent_confidences)
            /\ ~StdAbove(recent_confidences, 250)
            /\ ~PositionVarianceAbove(recent_positions, 50000)

\* C36, as claimed: each gate call appends exactly one sample to the window,
\* so the detection, confidence and position histories each grow by one entry
\* a call (until full) and hold the same number of entries.
C36_OneSamplePerCall ==
    [][gate_calls' = gate_calls + 1 =>
         /\ Len(ambulance_detection_history') =
               Min(Len(ambulance_detection_history) + 1, detection_history_maxlen)
         /\ Len(ambulance_confidence_history') =
               Min(Len(ambulance_confidence_history) + 1, confidence_history_maxlen)
         /\ Len(ambulance_position_history') =
               Min(Len(ambulance_position_history) + 1, position_history_maxlen)
         /\ Len(ambulance_detection_history') < position_history_maxlen =>
               /\ Len(ambulance_confidence_history') = Len(ambulance_detection_history')
               /\ Len(ambulance_position_history') = Len(ambulance_detection_history')]_vars

\* C37, as claimed: candidates of equal score are ranked in input order, so of
\* two candidates with equal scores and IoU above the threshold
\* non_max_suppression keeps the one that comes first in the input and drops
\* the later one.
C37_FirstSeenWinsTie ==
    nms_keep # None =>
       \A i, j \in DOMAIN nms_boxes :
          (i < j /\ nms_scores[i] = nms_scores[j]) =>
             /\ Rank(i) < Rank(j)
             /\ (Overlap(i, j) /\ Len(nms_boxes) = 2) => Kept = {i}

\* C38, as claimed: the update that clears an emergency resumes the interrupted
\* phase with the timer value it had when the emergency began, however many
\* activate_ambulance calls were made before it cleared: the call goes on from
\* that value by its delta_time, in the phase that was interrupted.
C38_ResumesWhereInterrupted ==
    [][(emergency_active /\ ~emergency_active' /\ last_op' = "update") =>
         \E delta_time \in DeltaTimes :
            LET advanced == emergency_began[1] + delta_time
            IN IF advanced >= phase_timings[current_phase]
               THEN phase_elapsed_time' = 0 /\ current_phase' = (current_phase % 9) + 1
               ELSE phase_elapsed_time' = advanced /\ current_phase' = current_phase]_vars

\* C39: a DetectionStreamingRunner never has two threads inside its
\* detection loop, its is_running flag is up only while the thread kept in
\* detection_thread is inside the loop, and a thread that leaves the loop
\* never lowers the flag that a later start() has raised for another thread;
\* this under every interleaving of start(), stop() with its bounded join
\* and the steps of the loop threads.
C39_OneLoopOwnsFlag ==
    [][/\ Cardinality(LoopThreads') <= 1
       /\ runner_is_running' =>
             /\ detection_thread' # 0
             /\ detection_thread' \in LoopThreads'
       /\ \A t \in 1..MaxThreads :
             (runner_is_running /\ LoopFinally(t)) => t = detection_thread]_vars

\* C40: a start_detection request that arrives when no thread of the runner
\* is inside the detection loop any more (the loop has ended, also when it
\* ended by itself at the end of the video, on a source that does not open
\* or on a frame error) is accepted and starts detection.
C40_RestartAfterLoopEnded ==
    [][(/\ requests' = requests + 1
        /\ last_request' = "start_detection"
        /\ detection_thread # 0
        /\ LoopThreads = {}
        /\ ~runner_is_running) => last_response' = "started"]_vars
====
